---- MODULE Spec2Model ----
(***************************************************************************)
(* Model of the HP48 "Red Eye" infrared codec: the receiver                *)
(* (src/ir_reciever/ir_reciever.c: capture and overflow interrupts, the    *)
(* foreground poll IR_is_data_available and the decoder                    *)
(* update_data_buffer) and the emitter (src/ir_emitter/ir_emitter.c: the   *)
(* pulse tables, IR_send_request, command_transmission,                    *)
(* frame_transmission and ir_led_transmission).                            *)
(*                                                                         *)
(* Specifications:                                                         *)
(*   Spec          receiver: interrupts interleaved with the polling loop  *)
(*   SpecRace      the same with update_data_buffer run step by step       *)
(*   SpecDecode    update_data_buffer on windows drawn from bounded sets   *)
(*   SpecWriteBit  find_bit_position / write_bit as functions              *)
(*   SpecRound     one emitted frame captured and decoded                  *)
(*   SpecEmit      IR_send_request on the emitter                          *)
(***************************************************************************)
EXTENDS Integers, Sequences, FiniteSets, TLC

(***************************************************************************)
(* Program constants of the receiver.                                      *)
(***************************************************************************)
EVENT_BUFFER_SIZE == 30
DATA_BUFFER_SIZE == 12
FIRST_BIT_POS == 51
SECOND_BIT_POS == 47
THIRD_BIT_POS == 43
FOURTH_BIT_POS == 39
FIFTH_BIT_POS == 35
SIXTH_BIT_POS == 31
SEVENTH_BIT_POS == 27
EIGHTH_BIT_POS == 23

\* Moduli of the 8 and 16 bit integer types the code computes in (the 64 bit
\* timestamps never come near their modulus and are kept as integers).
U8 == 256
U16 == 65536

(***************************************************************************)
(* Program constants of the emitter.  Durations are kept in units of       *)
(* 1/20 microsecond so that 30.3, 427.25 and their sums stay integers.     *)
(***************************************************************************)
TimeUnitsPerUs == 20
HIGH_LEVEL == 0
LOW_LEVEL1 == 1
LOW_LEVEL2 == 2
LOW_LEVEL3 == 3
LOW_LEVEL4 == 4
GET_COUNTER == 0
CLEAN_MEMORY == 1
CYCLES == 8
\* PERIOD 30.3 us, HALF_BIT_TIME 427.25 us, STOP_TIME 2.84 ms,
\* START_TIME 31.95 ms.
PERIOD == 606
HALF_BIT_TIME == 8545
STOP_TIME == 56800
START_TIME == 639000
\* CYCLES_FREQUENCY is used by LOW_LEVEL1_TIME but defined nowhere in the
\* sources; the documented ladder ShortLow = HalfBit - 8 x 30.3 makes it
\* the carrier period.
CYCLES_FREQUENCY == PERIOD
LOW_LEVEL1_TIME == HALF_BIT_TIME - (CYCLES * CYCLES_FREQUENCY)
LOW_LEVEL2_TIME == HALF_BIT_TIME
LOW_LEVEL3_TIME == LOW_LEVEL1_TIME + LOW_LEVEL2_TIME
LOW_LEVEL4_TIME == LOW_LEVEL1_TIME + (2 * LOW_LEVEL2_TIME)

(***************************************************************************)
(* The pulse tables.                                                       *)
(***************************************************************************)
g_ascii_ESC ==
  << LOW_LEVEL2, HIGH_LEVEL,
     LOW_LEVEL1, HIGH_LEVEL,
     LOW_LEVEL4, HIGH_LEVEL,
     LOW_LEVEL1, HIGH_LEVEL,
     LOW_LEVEL4, HIGH_LEVEL,
     LOW_LEVEL3, HIGH_LEVEL,
     LOW_LEVEL3, HIGH_LEVEL,
     LOW_LEVEL1, HIGH_LEVEL,
     LOW_LEVEL3, HIGH_LEVEL,
     LOW_LEVEL4, HIGH_LEVEL,
     LOW_LEVEL1, HIGH_LEVEL,
     LOW_LEVEL3, HIGH_LEVEL,
     LOW_LEVEL3 >>

g_ascii_DP ==
  << LOW_LEVEL2, HIGH_LEVEL,
     LOW_LEVEL1, HIGH_LEVEL,
     LOW_LEVEL4, HIGH_LEVEL,
     LOW_LEVEL1, HIGH_LEVEL,
     LOW_LEVEL3, HIGH_LEVEL,
     LOW_LEVEL3, HIGH_LEVEL,
     LOW_LEVEL3, HIGH_LEVEL,
     LOW_LEVEL3, HIGH_LEVEL,
     LOW_LEVEL3, HIGH_LEVEL,
     LOW_LEVEL4, HIGH_LEVEL,
     LOW_LEVEL3, HIGH_LEVEL,
     LOW_LEVEL1, HIGH_LEVEL,
     LOW_LEVEL3 >>

g_ascii_Y ==
  << HIGH_LEVEL, LOW_LEVEL3,
     HIGH_LEVEL, LOW_LEVEL3,
     HIGH_LEVEL, LOW_LEVEL4,
     HIGH_LEVEL, LOW_LEVEL3,
     HIGH_LEVEL, LOW_LEVEL1,
     HIGH_LEVEL, LOW_LEVEL4,
     HIGH_LEVEL, LOW_LEVEL1,
     HIGH_LEVEL, LOW_LEVEL3,
     HIGH_LEVEL, LOW_LEVEL4,
     HIGH_LEVEL, LOW_LEVEL3,
     HIGH_LEVEL, LOW_LEVEL1,
     HIGH_LEVEL, LOW_LEVEL3 >>

g_ascii_P ==
  << LOW_LEVEL2, HIGH_LEVEL,
     LOW_LEVEL1, HIGH_LEVEL,
     LOW_LEVEL4, HIGH_LEVEL,
     LOW_LEVEL3, HIGH_LEVEL,
     LOW_LEVEL3, HIGH_LEVEL,
     LOW_LEVEL1, HIGH_LEVEL,
     LOW_LEVEL4, HIGH_LEVEL,
     LOW_LEVEL1, HIGH_LEVEL,
     LOW_LEVEL4, HIGH_LEVEL,
     LOW_LEVEL3, HIGH_LEVEL,
     LOW_LEVEL3, HIGH_LEVEL,
     LOW_LEVEL3, HIGH_LEVEL,
     LOW_LEVEL1 >>

g_ascii_3 ==
  << LOW_LEVEL2, HIGH_LEVEL,
     LOW_LEVEL3, HIGH_LEVEL,
     LOW_LEVEL3, HIGH_LEVEL,
     LOW_LEVEL3, HIGH_LEVEL,
     LOW_LEVEL3, HIGH_LEVEL,
     LOW_LEVEL3, HIGH_LEVEL,
     LOW_LEVEL1, HIGH_LEVEL,
     LOW_LEVEL3, HIGH_LEVEL,
     LOW_LEVEL4, HIGH_LEVEL,
     LOW_LEVEL3, HIGH_LEVEL,
     LOW_LEVEL1, HIGH_LEVEL,
     LOW_LEVEL3, HIGH_LEVEL,
     LOW_LEVEL3 >>

g_ascii_M ==
  << LOW_LEVEL2, HIGH_LEVEL,
     LOW_LEVEL3, HIGH_LEVEL,
     LOW_LEVEL1, HIGH_LEVEL,
     LOW_LEVEL4, HIGH_LEVEL,
     LOW_LEVEL3, HIGH_LEVEL,
     LOW_LEVEL1, HIGH_LEVEL,
     LOW_LEVEL4, HIGH_LEVEL,
     LOW_LEVEL3, HIGH_LEVEL,
     LOW_LEVEL1, HIGH_LEVEL,
     LOW_LEVEL3, HIGH_LEVEL,
     LOW_LEVEL4, HIGH_LEVEL,
     LOW_LEVEL1, HIGH_LEVEL,
     LOW_LEVEL3 >>

g_ascii_I ==
  << LOW_LEVEL2, HIGH_LEVEL,
     LOW_LEVEL1, HIGH_LEVEL,
     LOW_LEVEL4, HIGH_LEVEL,
     LOW_LEVEL3, HIGH_LEVEL,
     LOW_LEVEL3, HIGH_LEVEL,
     LOW_LEVEL1, HIGH_LEVEL,
     LOW_LEVEL4, HIGH_LEVEL,
     LOW_LEVEL3, HIGH_LEVEL,
     LOW_LEVEL1, HIGH_LEVEL,
     LOW_LEVEL4, HIGH_LEVEL,
     LOW_LEVEL3, HIGH_LEVEL,
     LOW_LEVEL1, HIGH_LEVEL,
     LOW_LEVEL3 >>

g_ascii_O ==
  << LOW_LEVEL2, HIGH_LEVEL,
     LOW_LEVEL1, HIGH_LEVEL,
     LOW_LEVEL4, HIGH_LEVEL,
     LOW_LEVEL3, HIGH_LEVEL,
     LOW_LEVEL3, HIGH_LEVEL,
     LOW_LEVEL1, HIGH_LEVEL,
     LOW_LEVEL4, HIGH_LEVEL,
     LOW_LEVEL3, HIGH_LEVEL,
     LOW_LEVEL1, HIGH_LEVEL,
     LOW_LEVEL3, HIGH_LEVEL,
     LOW_LEVEL3, HIGH_LEVEL,
     LOW_LEVEL3, HIGH_LEVEL,
     LOW_LEVEL3 >>

\* Variant of g_ascii_F without its last two levels.
g_ascii_F_Short ==
  << HIGH_LEVEL, LOW_LEVEL3,
     HIGH_LEVEL, LOW_LEVEL4,
     HIGH_LEVEL, LOW_LEVEL1,
     HIGH_LEVEL, LOW_LEVEL4,
     HIGH_LEVEL, LOW_LEVEL1,
     HIGH_LEVEL, LOW_LEVEL4,
     HIGH_LEVEL, LOW_LEVEL3,
     HIGH_LEVEL, LOW_LEVEL3,
     HIGH_LEVEL, LOW_LEVEL1,
     HIGH_LEVEL, LOW_LEVEL3,
     HIGH_LEVEL, LOW_LEVEL4 >>

g_ascii_F ==
  << HIGH_LEVEL, LOW_LEVEL3,
     HIGH_LEVEL, LOW_LEVEL4,
     HIGH_LEVEL, LOW_LEVEL1,
     HIGH_LEVEL, LOW_LEVEL4,
     HIGH_LEVEL, LOW_LEVEL1,
     HIGH_LEVEL, LOW_LEVEL4,
     HIGH_LEVEL, LOW_LEVEL3,
     HIGH_LEVEL, LOW_LEVEL3,
     HIGH_LEVEL, LOW_LEVEL1,
     HIGH_LEVEL, LOW_LEVEL3,
     HIGH_LEVEL, LOW_LEVEL4,
     HIGH_LEVEL, LOW_LEVEL1 >>

g_ascii_FF ==
  << HIGH_LEVEL, LOW_LEVEL3,
     HIGH_LEVEL, LOW_LEVEL3,
     HIGH_LEVEL, LOW_LEVEL3,
     HIGH_LEVEL, LOW_LEVEL4,
     HIGH_LEVEL, LOW_LEVEL3,
     HIGH_LEVEL, LOW_LEVEL3,
     HIGH_LEVEL, LOW_LEVEL3,
     HIGH_LEVEL, LOW_LEVEL1,
     HIGH_LEVEL, LOW_LEVEL3,
     HIGH_LEVEL, LOW_LEVEL4,
     HIGH_LEVEL, LOW_LEVEL3,
     HIGH_LEVEL, LOW_LEVEL1 >>

g_ascii_EOT ==
  << LOW_LEVEL2, HIGH_LEVEL,
     LOW_LEVEL1, HIGH_LEVEL,
     LOW_LEVEL3, HIGH_LEVEL,
     LOW_LEVEL4, HIGH_LEVEL,
     LOW_LEVEL3, HIGH_LEVEL,
     LOW_LEVEL3, HIGH_LEVEL,
     LOW_LEVEL3, HIGH_LEVEL,
     LOW_LEVEL3, HIGH_LEVEL,
     LOW_LEVEL3, HIGH_LEVEL,
     LOW_LEVEL1, HIGH_LEVEL,
     LOW_LEVEL4, HIGH_LEVEL,
     LOW_LEVEL3, HIGH_LEVEL,
     LOW_LEVEL1 >>

g_ascii_C ==
  << HIGH_LEVEL, LOW_LEVEL4,
     HIGH_LEVEL, LOW_LEVEL3,
     HIGH_LEVEL, LOW_LEVEL3,
     HIGH_LEVEL, LOW_LEVEL3,
     HIGH_LEVEL, LOW_LEVEL1,
     HIGH_LEVEL, LOW_LEVEL4,
     HIGH_LEVEL, LOW_LEVEL3,
     HIGH_LEVEL, LOW_LEVEL3,
     HIGH_LEVEL, LOW_LEVEL3,
     HIGH_LEVEL, LOW_LEVEL1,
     HIGH_LEVEL, LOW_LEVEL3,
     HIGH_LEVEL, LOW_LEVEL3 >>

g_ascii_N ==
  << LOW_LEVEL2, HIGH_LEVEL,
     LOW_LEVEL1, HIGH_LEVEL,
     LOW_LEVEL4, HIGH_LEVEL,
     LOW_LEVEL3, HIGH_LEVEL,
     LOW_LEVEL3, HIGH_LEVEL,
     LOW_LEVEL1, HIGH_LEVEL,
     LOW_LEVEL4, HIGH_LEVEL,
     LOW_LEVEL3, HIGH_LEVEL,
     LOW_LEVEL1, HIGH_LEVEL,
     LOW_LEVEL3, HIGH_LEVEL,
     LOW_LEVEL3, HIGH_LEVEL,
     LOW_LEVEL4, HIGH_LEVEL,
     LOW_LEVEL1 >>

g_ascii_G ==
  << HIGH_LEVEL, LOW_LEVEL3,
     HIGH_LEVEL, LOW_LEVEL3,
     HIGH_LEVEL, LOW_LEVEL4,
     HIGH_LEVEL, LOW_LEVEL3,
     HIGH_LEVEL, LOW_LEVEL1,
     HIGH_LEVEL, LOW_LEVEL4,
     HIGH_LEVEL, LOW_LEVEL3,
     HIGH_LEVEL, LOW_LEVEL3,
     HIGH_LEVEL, LOW_LEVEL1,
     HIGH_LEVEL, LOW_LEVEL3,
     HIGH_LEVEL, LOW_LEVEL3,
     HIGH_LEVEL, LOW_LEVEL3 >>

\* Variant of g_ascii_DEL whose last level is LOW_LEVEL4.
g_ascii_DEL_Long ==
  << LOW_LEVEL2, HIGH_LEVEL,
     LOW_LEVEL3, HIGH_LEVEL,
     LOW_LEVEL3, HIGH_LEVEL,
     LOW_LEVEL1, HIGH_LEVEL,
     LOW_LEVEL4, HIGH_LEVEL,
     LOW_LEVEL1, HIGH_LEVEL,
     LOW_LEVEL3, HIGH_LEVEL,
     LOW_LEVEL3, HIGH_LEVEL,
     LOW_LEVEL3, HIGH_LEVEL,
     LOW_LEVEL3, HIGH_LEVEL,
     LOW_LEVEL3, HIGH_LEVEL,
     LOW_LEVEL3, HIGH_LEVEL,
     LOW_LEVEL4 >>

g_ascii_DEL ==
  << LOW_LEVEL2, HIGH_LEVEL,
     LOW_LEVEL3, HIGH_LEVEL,
     LOW_LEVEL3, HIGH_LEVEL,
     LOW_LEVEL1, HIGH_LEVEL,
     LOW_LEVEL4, HIGH_LEVEL,
     LOW_LEVEL1, HIGH_LEVEL,
     LOW_LEVEL3, HIGH_LEVEL,
     LOW_LEVEL3, HIGH_LEVEL,
     LOW_LEVEL3, HIGH_LEVEL,
     LOW_LEVEL3, HIGH_LEVEL,
     LOW_LEVEL3, HIGH_LEVEL,
     LOW_LEVEL3, HIGH_LEVEL,
     LOW_LEVEL3 >>

g_half_start_bits ==
  << HIGH_LEVEL, LOW_LEVEL1,
     HIGH_LEVEL, LOW_LEVEL1,
     HIGH_LEVEL, LOW_LEVEL1 >>


(***************************************************************************)
(* A pointer to a table is modelled by the table's name; Table              *)
(* dereferences it and SizeofTable is the C sizeof of the array (its        *)
(* elements are one byte each).                                             *)
(***************************************************************************)
CharNames ==
  { "ESC", "DP", "Y", "P", "3", "M", "I", "O", "F", "FF", "EOT", "C", "N",
    "G", "DEL" }

Table(name) ==
  CASE name = "ESC" -> g_ascii_ESC [] name = "DP" -> g_ascii_DP
    [] name = "Y" -> g_ascii_Y [] name = "P" -> g_ascii_P
    [] name = "3" -> g_ascii_3 [] name = "M" -> g_ascii_M
    [] name = "I" -> g_ascii_I [] name = "O" -> g_ascii_O
    [] name = "F" -> g_ascii_F [] name = "FF" -> g_ascii_FF
    [] name = "EOT" -> g_ascii_EOT [] name = "C" -> g_ascii_C
    [] name = "N" -> g_ascii_N [] name = "G" -> g_ascii_G
    [] name = "DEL" -> g_ascii_DEL

SizeofTable(name) == Len(Table(name))

(***************************************************************************)
(* The commands: arrays of table pointers and of table sizes.              *)
(***************************************************************************)
\* Variant of g_start_cmd with its two tables exchanged.
g_start_cmd_Swapped == << "DP", "ESC" >>

g_start_cmd == << "ESC", "DP" >>

\* Variant of g_stop_cmd with its two tables exchanged.
g_stop_cmd_Swapped == << "EOT", "FF" >>

g_stop_cmd == << "FF", "EOT" >>

g_get_couter_cmd == << "Y", "P", "3", "M", "I", "O", "F" >>

g_clean_memory_cmd == << "C", "N", "F", "G", "DEL" >>

g_start_cmd_len == << SizeofTable("ESC"), SizeofTable("DP") >>

g_stop_cmd_len == << SizeofTable("FF"), SizeofTable("EOT") >>

g_get_counter_cmd_len ==
  << SizeofTable("Y"), SizeofTable("P"), SizeofTable("3"), SizeofTable("M"),
     SizeofTable("I"), SizeofTable("O"), SizeofTable("F") >>

g_clean_memory_cmd_len ==
  << SizeofTable("C"), SizeofTable("N"), SizeofTable("F"), SizeofTable("G"),
     SizeofTable("DEL") >>

(***************************************************************************)
(* bitwiseop.h on 8 bit operands.                                          *)
(***************************************************************************)
BV(bit) == 2 ^ bit

BitAt(byte, bit) == (byte \div BV(bit)) % 2

RECURSIVE Or8(_, _, _)
Or8(a, b, k) ==
  IF k = 8 THEN 0
  ELSE (IF BitAt(a, k) = 1 \/ BitAt(b, k) = 1 THEN BV(k) ELSE 0)
       + Or8(a, b, k + 1)

RECURSIVE And8(_, _, _)
And8(a, b, k) ==
  IF k = 8 THEN 0
  ELSE (IF BitAt(a, k) = 1 /\ BitAt(b, k) = 1 THEN BV(k) ELSE 0)
       + And8(a, b, k + 1)

Not8(a) == (U8 - 1) - a

\* Variant of set_bit: the mask is assigned instead of or-ed in.
set_bit_Assign(byte, bit) == BV(bit)

set_bit(byte, bit) == Or8(byte, BV(bit), 0)

clear_bit(byte, bit) == And8(byte, Not8(BV(bit)), 0)

(***************************************************************************)
(* The decoder's functions (ir_reciever.c).  The reception buffer is a     *)
(* record: buf is g_data_buffer (indices 0 .. DATA_BUFFER_SIZE-1) and      *)
(* overrun collects the writes the code makes past the end of the array,   *)
(* as <<index, bit, logic_level>>.                                         *)
(***************************************************************************)
write_bit(mem, byte_cnt, bit, logic_level) ==
  IF byte_cnt < DATA_BUFFER_SIZE
    THEN [mem EXCEPT !.buf[byte_cnt] =
            IF logic_level THEN set_bit(@, bit) ELSE clear_bit(@, bit)]
    ELSE [mem EXCEPT !.overrun = @ \cup {<<byte_cnt, bit, logic_level>>}]

find_bit_position(mem, byte_cnt, bit_position, logic_level) ==
  CASE bit_position = FIRST_BIT_POS -> write_bit(mem, byte_cnt, 0, logic_level)
    [] bit_position = SECOND_BIT_POS -> write_bit(mem, byte_cnt, 1, logic_level)
    [] bit_position = THIRD_BIT_POS -> write_bit(mem, byte_cnt, 2, logic_level)
    [] bit_position = FOURTH_BIT_POS -> write_bit(mem, byte_cnt, 3, logic_level)
    [] bit_position = FIFTH_BIT_POS -> write_bit(mem, byte_cnt, 4, logic_level)
    [] bit_position = SIXTH_BIT_POS -> write_bit(mem, byte_cnt, 5, logic_level)
    [] bit_position = SEVENTH_BIT_POS -> write_bit(mem, byte_cnt, 6, logic_level)
    [] bit_position = EIGHTH_BIT_POS -> write_bit(mem, byte_cnt, 7, logic_level)
    [] OTHER -> mem

\* Variant of PulseWidth that keeps the difference at full width.
PulseWidth_Wide(event, last_event) == (event % U16) - last_event

\* uint16_t pulse_width = (uint16_t)g_event_buffer[i] - g_last_event;
\* the cast truncates the timestamp, the subtraction is done in 64 bits and
\* the assignment truncates the difference to 16 bits.
PulseWidth(event, last_event) == ((event % U16) - last_event) % U16

\* Variants of Classify: the lower ends of the bands closed, and a final
\* else branch that resets the count.
Classify_Closed(pulse_width, quater_of_bit) ==
  IF pulse_width >= 20 /\ pulse_width < 100 THEN 1
  ELSE IF pulse_width >= 120 /\ pulse_width < 200 THEN 3
  ELSE IF pulse_width >= 220 /\ pulse_width < 300 THEN 5
  ELSE quater_of_bit

Classify_Reset(pulse_width, quater_of_bit) ==
  IF pulse_width > 20 /\ pulse_width < 100 THEN 1
  ELSE IF pulse_width > 120 /\ pulse_width < 200 THEN 3
  ELSE IF pulse_width > 220 /\ pulse_width < 300 THEN 5
  ELSE 0

\* The if / else-if ladder over the three bands; no else branch.
Classify(pulse_width, quater_of_bit) ==
  IF pulse_width > 20 /\ pulse_width < 100 THEN 1
  ELSE IF pulse_width > 120 /\ pulse_width < 200 THEN 3
  ELSE IF pulse_width > 220 /\ pulse_width < 300 THEN 5
  ELSE quater_of_bit

\* The guard of the call in the quarter loop.
CallsFindBitPosition(event_cnt) == event_cnt = EIGHTH_BIT_POS

\* for (j = 0; j < quater_of_bit; j++) { if (...) find_bit_position(...);
\* event_cnt++; } : the value is the buffer and event_cnt after the loop.
RECURSIVE QuarterLoop(_, _, _, _, _, _)
QuarterLoop(j, quater_of_bit, event_cnt, st, mem, byte_cnt) ==
  IF j < quater_of_bit
    THEN QuarterLoop(j + 1, quater_of_bit, (event_cnt + 1) % U8, st,
                     IF CallsFindBitPosition(event_cnt)
                       THEN find_bit_position(mem, byte_cnt, event_cnt, st)
                       ELSE mem,
                     byte_cnt)
    ELSE [event_cnt |-> event_cnt, mem |-> mem]

(***************************************************************************)
(* The signal on the sense line: frames of the pulse tables, each the      *)
(* half-start preamble followed by the table, at the nominal durations.    *)
(* A Burst pulls the line low for CYCLES carrier periods (one falling and  *)
(* one rising edge); a low level only lets time pass.                      *)
(***************************************************************************)
LevelTime(level) ==
  CASE level = HIGH_LEVEL -> CYCLES * PERIOD
    [] level = LOW_LEVEL1 -> LOW_LEVEL1_TIME
    [] level = LOW_LEVEL2 -> LOW_LEVEL2_TIME
    [] level = LOW_LEVEL3 -> LOW_LEVEL3_TIME
    [] level = LOW_LEVEL4 -> LOW_LEVEL4_TIME
    [] OTHER -> 0

FrameLevels(name) == g_half_start_bits \o Table(name)

\* Times of the edges of a level sequence, from time t on.
RECURSIVE EdgesOf(_, _, _)
EdgesOf(levels, k, t) ==
  IF k > Len(levels) THEN << >>
  ELSE IF levels[k] = HIGH_LEVEL
         THEN << t, t + LevelTime(HIGH_LEVEL) >>
              \o EdgesOf(levels, k + 1, t + LevelTime(HIGH_LEVEL))
         ELSE EdgesOf(levels, k + 1, t + LevelTime(levels[k]))

RECURSIVE SumTimes(_, _)
SumTimes(levels, k) ==
  IF k > Len(levels) THEN 0 ELSE LevelTime(levels[k]) + SumTimes(levels, k + 1)

\* The synthetic windows, as quarter-bit counts of the 29 intervals:
\* Pattern178 puts the levels 1,0,1,1,0,0,1,0 at the offsets 23,27,...,51
\* and Pattern77 the complementary levels.
Pattern178 ==
  << 5, 3, 5, 3, 1, 5, 5, 3, 3, 1, 3, 1, 1, 5, 5, 5, 5, 3, 5, 5, 3, 3, 3, 1,
     3, 1, 3, 1, 3 >>

Pattern77 ==
  << 1, 3, 3, 3, 5, 5, 3, 3, 5, 3, 1, 1, 5, 1, 3, 5, 3, 5, 5, 1, 5, 3, 5, 5,
     1, 1, 3, 3, 3 >>

\* Pattern73 puts the levels 0,1,0,0,1,0,0,1 at the offsets; offset 23 falls
\* in an interval of level 0 also when any one of its intervals is replaced
\* by the interval before it.
Pattern73 ==
  << 1, 1, 1, 1, 1, 1, 1, 1, 3, 5, 5, 5, 3, 3, 3, 3, 3, 3, 3, 3, 3, 3, 3, 3,
     3, 3, 3, 3, 3 >>

PatternOf(name) ==
  CASE name = "P178" -> Pattern178
    [] name = "P77" -> Pattern77
    [] name = "P73" -> Pattern73

\* Width in counter ticks of an interval of 1, 3 or 5 quarter-bits, taken in
\* the middle of the decoder's bands.
NominalWidth(q) == CASE q = 1 -> 60 [] q = 3 -> 160 [] q = 5 -> 260

RECURSIVE PatternEdges(_, _, _)
PatternEdges(pattern, k, t) ==
  IF k > Len(pattern) THEN << t >>
  ELSE << t >> \o PatternEdges(pattern, k + 1,
                               t + NominalWidth(pattern[k]) * TimeUnitsPerUs)

RECURSIVE SumWidths(_, _)
SumWidths(pattern, k) ==
  IF k > Len(pattern) THEN 0
  ELSE NominalWidth(pattern[k]) * TimeUnitsPerUs + SumWidths(pattern, k + 1)

SignalNames == CharNames \cup {"P178", "P77", "P73"}

\* Edge times of a frame from its start, and the time to the next frame.
FrameEdges ==
  [name \in SignalNames |->
     IF name \in CharNames THEN EdgesOf(FrameLevels(name), 1, 0)
     ELSE PatternEdges(PatternOf(name), 1, 0)]

FrameTime ==
  [name \in SignalNames |->
     IF name \in CharNames THEN SumTimes(FrameLevels(name), 1) + STOP_TIME
     ELSE SumWidths(PatternOf(name), 1) + STOP_TIME]

(***************************************************************************)
(* Bounds and sample sets of the model.                                    *)
(***************************************************************************)
\* Frames the sender transmits in Spec.
MaxFrames == 12

\* Calls of IR_send_request in SpecEmit.
MaxCalls == 2

\* Edges the sender transmits after the first window in SpecRace.
MaxRaceEdges == 4

\* Windows the sender transmits in SpecTail.
TailFrames == 2

\* Values of the free-running counter TCNT1 at the first edge.
TcntStarts == {0, 60000, 62936}

LongRunStarts == {60000}

Patterns == {Pattern178, Pattern77}

\* One interval of the window is replaced by a probe width.
ProbeSlots == {1, 2, 15, 29}

ProbeWidths ==
  {0, 20, 21, 99, 100, 110, 120, 121, 199, 200, 220, 221, 299, 300, 301, 60,
   160, 260}

WindowBases == {0, 65500}

PriorBytes == {0, 255}

PriorLastEvents == {0, 70000}

DecodeSlots == {1, DATA_BUFFER_SIZE}

WidthAt(pattern, p, w, k) == IF k = p THEN w ELSE NominalWidth(pattern[k])

RECURSIVE WindowTime(_, _, _, _, _)
WindowTime(pattern, base, p, w, k) ==
  IF k = 0 THEN base
  ELSE WindowTime(pattern, base, p, w, k - 1) + WidthAt(pattern, p, w, k)

Window(pattern, base, p, w) ==
  [k \in 0 .. (EVENT_BUFFER_SIZE - 1) |-> WindowTime(pattern, base, p, w, k)]

(***************************************************************************)
(* State.                                                                  *)
(***************************************************************************)
VARIABLES
  \* globals of ir_reciever.c
  g_last_event, g_byte_cnt, g_virtual_cnt, g_is_edge_falling,
  g_is_event_buffer_full, g_event_buffer_index, g_data_buffer,
  g_event_buffer,
  overrun,        \* writes past the end of g_data_buffer
  \* TIMER1: edge select bit, input capture register, interrupt flags
  ICES1, ICR1, ICF1, TOV1,
  \* the sense line and the sender: what is sent ("synthetic" windows or
  \* the frame of one character), how many frames, the counter value TCNT1
  \* at time 0, counter wraps so far, whether the counter wrapped since
  \* the last edge, frames sent, edges of the current frame sent, start
  \* time of the current frame, level of the line
  sender, sig_total, tcnt0, wraps, tov_new, sig_frame, sig_edge, frame_start,
  line,
  \* the foreground: position, locals of IR_is_data_available and of
  \* update_data_buffer
  pc, status, i, event_cnt, quater_of_bit, state,
  \* history: captures stored, decoder runs started, windows completed and
  \* decoder runs completed since the last true return, the last value
  \* returned, whether the last call returned true with no window
  \* completed since, the <<offset, level>> pairs met by the running
  \* decode, its intervals and its state flips
  captures, decode_runs, completed_since_report, decoded_since_report,
  returned, fresh_true, hits, intervals, flips,
  \* whether g_byte_cnt had reached DATA_BUFFER_SIZE when the running call
  \* of IR_is_data_available began
  due,
  \* the emitter: the argument of IR_send_request, the statement it is at,
  \* i of command_transmission, the statement frame_transmission is at and
  \* its i, the offsets of its two cursors (half_start_bits from the start
  \* of g_half_start_bits, data_frame from the start of the table), the
  \* IR_LED bit of PORTD
  command, phase, ct_i, ft_pc, ft_i, half_start_bits, data_frame, IR_LED,
  \* what the build fixes: sizeof(half_start_bits) and the bytes that
  \* follow g_half_start_bits in memory
  sizeof_half_start_bits, rom_after,
  \* history: calls of IR_send_request, the frames and delays of the
  \* running call, the levels of the running frame
  calls, sent, frame_levels,
  \* the levels and delays of the running call, and for every command those
  \* of the first call that was made with it
  emitted, first_emitted

rxGlobals ==
  << g_last_event, g_byte_cnt, g_virtual_cnt, g_is_edge_falling,
     g_is_event_buffer_full, g_event_buffer_index, g_data_buffer,
     g_event_buffer, overrun >>

hwVars == << ICES1, ICR1, ICF1, TOV1 >>

envVars ==
  << sender, sig_total, tcnt0, wraps, tov_new, sig_frame, sig_edge,
     frame_start, line >>

fgVars == << pc, status, i, event_cnt, quater_of_bit, state >>

histVars ==
  << captures, decode_runs, completed_since_report, decoded_since_report,
     returned, fresh_true, hits, intervals, flips, due >>

rxVars == << rxGlobals, hwVars, envVars, fgVars, histVars >>

txVars ==
  << command, phase, ct_i, ft_pc, ft_i, half_start_bits, data_frame, IR_LED,
     sizeof_half_start_bits, rom_after, calls, sent, frame_levels, emitted,
     first_emitted >>

vars == << rxVars, txVars >>

Mem == [buf |-> g_data_buffer, overrun |-> overrun]

BitPositions ==
  { FIRST_BIT_POS, SECOND_BIT_POS, THIRD_BIT_POS, FOURTH_BIT_POS,
    FIFTH_BIT_POS, SIXTH_BIT_POS, SEVENTH_BIT_POS, EIGHTH_BIT_POS }

\* The offsets event_cnt takes during the quarter loop of one interval, each
\* with the logic level of that interval.
HitsIn(cnt, quarters, level) ==
  { << o, level >> : o \in { x \in BitPositions : cnt <= x /\ x < cnt + quarters } }

(***************************************************************************)
(* Initial values.                                                         *)
(***************************************************************************)
\* Static storage is zeroed; IR_Reciever_init then sets the globals.
IR_Reciever_init ==
  /\ g_byte_cnt = 0
  /\ g_last_event = 0
  /\ g_virtual_cnt = 0
  /\ g_event_buffer_index = 0
  /\ g_is_edge_falling = TRUE
  /\ g_is_event_buffer_full = FALSE
  /\ g_data_buffer = [k \in 0 .. (DATA_BUFFER_SIZE - 1) |-> 0]
  /\ g_event_buffer = [k \in 0 .. (EVENT_BUFFER_SIZE - 1) |-> 0]
  /\ overrun = {}

\* The globals between two windows, after none or eleven windows since
\* the last report (the decoded bits being 0).
WindowsBefore == {0, DATA_BUFFER_SIZE - 1}

ReceiverAfter ==
  /\ g_byte_cnt \in WindowsBefore
  /\ g_last_event = 0
  /\ g_virtual_cnt = 0
  /\ g_event_buffer_index = 0
  /\ g_is_edge_falling = TRUE
  /\ g_is_event_buffer_full = FALSE
  /\ g_data_buffer = [k \in 0 .. (DATA_BUFFER_SIZE - 1) |-> 0]
  /\ g_event_buffer = [k \in 0 .. (EVENT_BUFFER_SIZE - 1) |-> 0]
  /\ overrun = {}

\* Variant of TIMER1_init that selects the rising edge.
TIMER1_init_Rising ==
  /\ ICES1 = TRUE
  /\ ICR1 = 0
  /\ ICF1 = FALSE
  /\ TOV1 = FALSE

\* ICES1 clear selects the falling edge; both interrupt flags are cleared.
TIMER1_init ==
  /\ ICES1 = FALSE
  /\ ICR1 = 0
  /\ ICF1 = FALSE
  /\ TOV1 = FALSE

FgInit ==
  /\ pc = "main"
  /\ status = FALSE
  /\ i = 0
  /\ event_cnt = 0
  /\ quater_of_bit = 0
  /\ state = TRUE

HistInit ==
  /\ captures = 0
  /\ decode_runs = 0
  /\ completed_since_report = 0
  /\ decoded_since_report = 0
  /\ returned = "none"
  /\ fresh_true = FALSE
  /\ hits = {}
  /\ intervals = 0
  /\ flips = 0
  /\ due = FALSE

\* The history between two windows (see ReceiverAfter): g_byte_cnt windows
\* were completed and decoded since the last report; captures and decodes
\* are counted from here.
HistAfter ==
  /\ captures = 0
  /\ decode_runs = 0
  /\ completed_since_report = g_byte_cnt
  /\ decoded_since_report = g_byte_cnt
  /\ returned = "none"
  /\ fresh_true = FALSE
  /\ hits = {}
  /\ intervals = 0
  /\ flips = 0
  /\ due = FALSE

\* The line idles high; no frame has been sent.
EnvIdle ==
  /\ wraps = 0
  /\ tov_new = FALSE
  /\ sig_frame = 0
  /\ sig_edge = 0
  /\ frame_start = 0
  /\ line = 1

\* The emitter after IR_Emitter_init: the LED is off and nothing was sent.
\* sizeof(half_start_bits) and the memory after g_half_start_bits are
\* fixed by the build; see frame_transmission below.
TxInit ==
  /\ command = GET_COUNTER
  /\ phase = "idle"
  /\ ct_i = 0
  /\ ft_pc = "none"
  /\ ft_i = 0
  /\ half_start_bits = 0
  /\ data_frame = 0
  /\ IR_LED = 0
  /\ sizeof_half_start_bits \in {Len(g_half_start_bits)}
  /\ rom_after \in {HIGH_LEVEL}
  /\ calls = 0
  /\ sent = << >>
  /\ frame_levels = << >>
  /\ emitted = << >>
  /\ first_emitted = [c \in {GET_COUNTER, CLEAN_MEMORY, 2} |-> << >>]

(***************************************************************************)
(* TIMER1 and the sense line.                                              *)
(***************************************************************************)
\* The frame sent as number f (from 0): the synthetic windows alternate.
FrameName(f) ==
  IF sender = "synthetic" THEN (IF f % 2 = 0 THEN "P178" ELSE "P77")
  ELSE sender

NextEdgeTime == frame_start + FrameEdges[FrameName(sig_frame)][sig_edge + 1]

\* Counter ticks (1 us each) elapsed at time t, from counter value tcnt0.
TicksAt(t) == tcnt0 + (t \div TimeUnitsPerUs)

WrapsAt(t) == TicksAt(t) \div U16

\* Edges sent so far; the sender stops after sig_total edges.
EdgesSent == sig_frame * EVENT_BUFFER_SIZE + sig_edge

SignalLeft == EdgesSent < sig_total

\* The 16 bit counter wraps before the next edge: the overflow flag is set.
HwOverflow ==
  /\ SignalLeft
  /\ ~TOV1
  /\ WrapsAt(NextEdgeTime) > wraps
  /\ TOV1' = TRUE
  /\ wraps' = wraps + 1
  /\ tov_new' = TRUE
  /\ UNCHANGED << ICES1, ICR1, ICF1, sender, sig_total, tcnt0, sig_frame,
                  sig_edge, frame_start, line >>
  /\ UNCHANGED << rxGlobals, fgVars, histVars >>
  /\ UNCHANGED txVars

\* The next edge of the frame arrives.  The capture unit latches the counter
\* and raises its flag when the edge has the selected direction.  Interrupts
\* are served long before the next edge, except that an edge may follow a
\* counter wrap so closely that both interrupts are pending together.
HwEdge ==
  /\ SignalLeft
  /\ ~ICF1
  /\ TOV1 => tov_new
  /\ tov_new' = FALSE
  /\ WrapsAt(NextEdgeTime) = wraps
  /\ LET name == FrameName(sig_frame)
         falling == (line = 1)
         selected == (falling <=> ~ICES1)
     IN /\ line' = 1 - line
        /\ ICF1' = selected
        /\ ICR1' = IF selected THEN TicksAt(NextEdgeTime) % U16 ELSE ICR1
        /\ IF sig_edge + 1 = Len(FrameEdges[name])
             THEN /\ sig_edge' = 0
                  /\ sig_frame' = sig_frame + 1
                  /\ frame_start' = frame_start + FrameTime[name]
             ELSE /\ sig_edge' = sig_edge + 1
                  /\ UNCHANGED << sig_frame, frame_start >>
  /\ UNCHANGED << ICES1, TOV1, sender, sig_total, tcnt0, wraps >>
  /\ UNCHANGED << rxGlobals, fgVars, histVars >>
  /\ UNCHANGED txVars

(***************************************************************************)
(* Interrupt service routines.  An interrupt routine runs with interrupts  *)
(* disabled, hence as one step.                                            *)
(***************************************************************************)
\* Variant of TIMER1_OVF_vect that adds 0xFFFF.
TIMER1_OVF_vect_Low ==
  /\ TOV1
  /\ TOV1' = FALSE
  /\ g_virtual_cnt' = g_virtual_cnt + (U16 - 1)
  /\ UNCHANGED << g_last_event, g_byte_cnt, g_is_edge_falling,
                  g_is_event_buffer_full, g_event_buffer_index,
                  g_data_buffer, g_event_buffer, overrun >>
  /\ UNCHANGED << ICES1, ICR1, ICF1 >>
  /\ UNCHANGED << envVars, fgVars, histVars >>
  /\ UNCHANGED txVars

TIMER1_OVF_vect ==
  /\ TOV1
  /\ TOV1' = FALSE
  /\ g_virtual_cnt' = g_virtual_cnt + U16
  /\ UNCHANGED << g_last_event, g_byte_cnt, g_is_edge_falling,
                  g_is_event_buffer_full, g_event_buffer_index,
                  g_data_buffer, g_event_buffer, overrun >>
  /\ UNCHANGED << ICES1, ICR1, ICF1 >>
  /\ UNCHANGED << envVars, fgVars, histVars >>
  /\ UNCHANGED txVars

\* Variant of IsEventBufferFull that misses the index reaching the size.
IsEventBufferFull_Late(index) == index > EVENT_BUFFER_SIZE

\* Variant of IsEventBufferFull that fires one capture early.
IsEventBufferFull_Early(index) == index >= EVENT_BUFFER_SIZE - 1

\* if (g_event_buffer_index == EVENT_BUFFER_SIZE)
IsEventBufferFull(index) == index = EVENT_BUFFER_SIZE

TIMER1_CAPT_vect ==
  /\ ICF1
  /\ ICF1' = FALSE
  /\ LET timer_value == ICR1
         index == (g_event_buffer_index + 1) % U8
     IN /\ ICES1' = g_is_edge_falling
        /\ g_is_edge_falling' = ~g_is_edge_falling
        /\ g_event_buffer' =
             [g_event_buffer EXCEPT
                ![g_event_buffer_index] = g_virtual_cnt + timer_value]
        /\ captures' = captures + 1
        /\ IF IsEventBufferFull(index)
             THEN /\ g_byte_cnt' = (g_byte_cnt + 1) % U8
                  /\ g_event_buffer_index' = 0
                  /\ g_is_event_buffer_full' = TRUE
                  /\ completed_since_report' = completed_since_report + 1
                  /\ fresh_true' = FALSE
             ELSE /\ g_event_buffer_index' = index
                  /\ UNCHANGED << g_byte_cnt, g_is_event_buffer_full,
                                  completed_since_report, fresh_true >>
  /\ UNCHANGED << g_last_event, g_virtual_cnt, g_data_buffer, overrun >>
  /\ UNCHANGED << ICR1, TOV1 >>
  /\ UNCHANGED << decode_runs, decoded_since_report, returned, hits,
                  intervals, flips >>
  /\ UNCHANGED << envVars, fgVars >>
  /\ UNCHANGED due
  /\ UNCHANGED txVars

(***************************************************************************)
(* The foreground: main's loop calling IR_is_data_available.  Interrupts   *)
(* are enabled throughout, so a pending interrupt is served before the     *)
(* foreground takes its next step.                                         *)
(***************************************************************************)
FgRuns == ~ICF1 /\ ~TOV1

\* bool status = false; if (g_is_event_buffer_full) update_data_buffer();
\* on entry to update_data_buffer its locals are initialised.
Call ==
  /\ pc = "main"
  /\ FgRuns
  /\ status' = FALSE
  /\ IF g_is_event_buffer_full
       THEN /\ pc' = "update"
            /\ i' = 0
            /\ event_cnt' = 0
            /\ quater_of_bit' = 0
            /\ state' = TRUE
            /\ decode_runs' = decode_runs + 1
            /\ hits' = {}
            /\ intervals' = 0
            /\ flips' = 0
       ELSE /\ pc' = "test_cnt"
            /\ UNCHANGED << i, event_cnt, quater_of_bit, state, decode_runs,
                            hits, intervals, flips >>
  /\ UNCHANGED << captures, completed_since_report, decoded_since_report,
                  returned, fresh_true >>
  /\ UNCHANGED << rxGlobals, hwVars, envVars >>
  /\ due' = (g_byte_cnt >= DATA_BUFFER_SIZE)
  /\ UNCHANGED txVars

\* One iteration of the loop over the 30 events.
UpdateStep ==
  /\ pc = "update"
  /\ FgRuns
  /\ i < EVENT_BUFFER_SIZE
  /\ IF i > 0
       THEN LET pulse_width == PulseWidth(g_event_buffer[i], g_last_event)
                quarters == Classify(pulse_width, quater_of_bit)
                r == QuarterLoop(0, quarters, event_cnt, state, Mem,
                                 g_byte_cnt)
            IN /\ quater_of_bit' = quarters
               /\ event_cnt' = r.event_cnt
               /\ g_data_buffer' = r.mem.buf
               /\ overrun' = r.mem.overrun
               /\ state' = ~state
               /\ hits' = hits \cup HitsIn(event_cnt, quarters, state)
               /\ intervals' = intervals + 1
               /\ flips' = flips + 1
       ELSE UNCHANGED << quater_of_bit, event_cnt, g_data_buffer, overrun,
                         state, hits, intervals, flips >>
  /\ g_last_event' = g_event_buffer[i]
  /\ i' = i + 1
  /\ UNCHANGED << pc, status >>
  /\ UNCHANGED << g_byte_cnt, g_virtual_cnt, g_is_edge_falling,
                  g_is_event_buffer_full, g_event_buffer_index,
                  g_event_buffer >>
  /\ UNCHANGED << captures, decode_runs, completed_since_report,
                  decoded_since_report, returned, fresh_true >>
  /\ UNCHANGED << hwVars, envVars >>
  /\ UNCHANGED due
  /\ UNCHANGED txVars

\* The loop ends and update_data_buffer returns.
UpdateReturn ==
  /\ pc = "update"
  /\ FgRuns
  /\ i = EVENT_BUFFER_SIZE
  /\ pc' = "clear_full"
  /\ decoded_since_report' = decoded_since_report + 1
  /\ i' = 0
  /\ event_cnt' = 0
  /\ quater_of_bit' = 0
  /\ state' = TRUE
  /\ status' = status
  /\ UNCHANGED << captures, decode_runs, completed_since_report, returned,
                  fresh_true, hits, intervals, flips >>
  /\ UNCHANGED << rxGlobals, hwVars, envVars >>
  /\ UNCHANGED due
  /\ UNCHANGED txVars

\* g_is_event_buffer_full = false;
ClearFull ==
  /\ pc = "clear_full"
  /\ FgRuns
  /\ g_is_event_buffer_full' = FALSE
  /\ pc' = "test_cnt"
  /\ hits' = {}
  /\ intervals' = 0
  /\ flips' = 0
  /\ UNCHANGED << g_last_event, g_byte_cnt, g_virtual_cnt, g_is_edge_falling,
                  g_event_buffer_index, g_data_buffer, g_event_buffer,
                  overrun >>
  /\ UNCHANGED << status, i, event_cnt, quater_of_bit, state >>
  /\ UNCHANGED << captures, decode_runs, completed_since_report,
                  decoded_since_report, returned, fresh_true >>
  /\ UNCHANGED << hwVars, envVars >>
  /\ UNCHANGED due
  /\ UNCHANGED txVars

\* Variant of TestCnt that waits for the counter to reach DATA_BUFFER_SIZE.
TestCnt_Waits ==
  /\ pc = "test_cnt"
  /\ FgRuns
  /\ g_byte_cnt = DATA_BUFFER_SIZE
  /\ IF g_byte_cnt = DATA_BUFFER_SIZE
       THEN status' = TRUE /\ pc' = "reset_cnt"
       ELSE status' = status /\ pc' = "return"
  /\ UNCHANGED << i, event_cnt, quater_of_bit, state >>
  /\ UNCHANGED << rxGlobals, hwVars, envVars, histVars >>
  /\ UNCHANGED txVars

\* if (g_byte_cnt == DATA_BUFFER_SIZE) status = true;
TestCnt ==
  /\ pc = "test_cnt"
  /\ FgRuns
  /\ IF g_byte_cnt = DATA_BUFFER_SIZE
       THEN status' = TRUE /\ pc' = "reset_cnt"
       ELSE status' = status /\ pc' = "return"
  /\ UNCHANGED << i, event_cnt, quater_of_bit, state >>
  /\ UNCHANGED << rxGlobals, hwVars, envVars, histVars >>
  /\ UNCHANGED txVars

\* g_byte_cnt = 0;
ResetCnt ==
  /\ pc = "reset_cnt"
  /\ FgRuns
  /\ g_byte_cnt' = 0
  /\ pc' = "return"
  /\ UNCHANGED << g_last_event, g_virtual_cnt, g_is_edge_falling,
                  g_is_event_buffer_full, g_event_buffer_index,
                  g_data_buffer, g_event_buffer, overrun >>
  /\ UNCHANGED << status, i, event_cnt, quater_of_bit, state >>
  /\ UNCHANGED << hwVars, envVars, histVars >>
  /\ UNCHANGED txVars

\* return status; main then loops (after printing the buffer when true).
Return ==
  /\ pc = "return"
  /\ FgRuns
  /\ pc' = "main"
  /\ returned' = status
  /\ fresh_true' = status
  /\ completed_since_report' = IF status THEN 0 ELSE completed_since_report
  /\ decoded_since_report' = IF status THEN 0 ELSE decoded_since_report
  /\ UNCHANGED << status, i, event_cnt, quater_of_bit, state >>
  /\ UNCHANGED << captures, decode_runs, hits, intervals, flips >>
  /\ UNCHANGED << rxGlobals, hwVars, envVars >>
  /\ UNCHANGED due
  /\ UNCHANGED txVars

\* update_data_buffer from iteration k on, as a function of the state it
\* reads: the value is the state after the loop.
RECURSIVE UpdateFrom(_, _, _)
UpdateFrom(k, events, d) ==
  IF k = EVENT_BUFFER_SIZE THEN d
  ELSE IF k = 0
    THEN UpdateFrom(1, events, [d EXCEPT !.last_event = events[0]])
    ELSE LET pulse_width == PulseWidth(events[k], d.last_event)
             quarters == Classify(pulse_width, d.quater_of_bit)
             r == QuarterLoop(0, quarters, d.event_cnt, d.state, d.mem,
                              d.byte_cnt)
         IN UpdateFrom(k + 1, events,
              [d EXCEPT !.quater_of_bit = quarters,
                        !.event_cnt = r.event_cnt,
                        !.mem = r.mem,
                        !.state = ~d.state,
                        !.hits = @ \cup HitsIn(d.event_cnt, quarters, d.state),
                        !.intervals = @ + 1,
                        !.flips = @ + 1,
                        !.last_event = events[k]])

\* if (g_is_event_buffer_full) update_data_buffer(); with the whole of
\* update_data_buffer run between two interrupts.
CallRun ==
  /\ pc = "main"
  /\ FgRuns
  /\ status' = FALSE
  /\ IF g_is_event_buffer_full
       THEN LET d == UpdateFrom(0, g_event_buffer,
                       [last_event |-> g_last_event, quater_of_bit |-> 0,
                        event_cnt |-> 0, state |-> TRUE, mem |-> Mem,
                        byte_cnt |-> g_byte_cnt, hits |-> {},
                        intervals |-> 0, flips |-> 0])
            IN /\ pc' = "clear_full"
               /\ UNCHANGED << i, event_cnt, quater_of_bit, state >>
               /\ g_last_event' = d.last_event
               /\ g_data_buffer' = d.mem.buf
               /\ overrun' = d.mem.overrun
               /\ hits' = d.hits
               /\ intervals' = d.intervals
               /\ flips' = d.flips
               /\ decode_runs' = decode_runs + 1
               /\ decoded_since_report' = decoded_since_report + 1
       ELSE /\ pc' = "test_cnt"
            /\ UNCHANGED << i, event_cnt, quater_of_bit, state, g_last_event,
                            g_data_buffer, overrun, hits, intervals, flips,
                            decode_runs, decoded_since_report >>
  /\ UNCHANGED << g_byte_cnt, g_virtual_cnt, g_is_edge_falling,
                  g_is_event_buffer_full, g_event_buffer_index,
                  g_event_buffer >>
  /\ UNCHANGED << captures, completed_since_report, returned, fresh_true >>
  /\ UNCHANGED << hwVars, envVars >>
  /\ due' = (g_byte_cnt >= DATA_BUFFER_SIZE)
  /\ UNCHANGED txVars

(***************************************************************************)
(* Spec: the receiver after IR_Reciever_init and sei(), the sender         *)
(* transmitting MaxFrames synthetic windows; update_data_buffer runs       *)
(* between two interrupts.                                                 *)
(***************************************************************************)
Init ==
  /\ IR_Reciever_init
  /\ TIMER1_init
  /\ FgInit
  /\ HistInit
  /\ EnvIdle
  /\ sender = "P73"
  /\ sig_total = MaxFrames * EVENT_BUFFER_SIZE
  /\ tcnt0 \in LongRunStarts
  /\ TxInit

Next ==
  \/ HwOverflow
  \/ HwEdge
  \/ TIMER1_OVF_vect
  \/ TIMER1_CAPT_vect
  \/ CallRun
  \/ ClearFull
  \/ TestCnt
  \/ ResetCnt
  \/ Return

Spec == Init /\ [][Next]_vars

(***************************************************************************)
(* SpecRace: the same receiver with the interrupts interleaved with the    *)
(* iterations of update_data_buffer, over one window and MaxRaceEdges       *)
(* edges of the next.                                                      *)
(***************************************************************************)
InitRace ==
  /\ ReceiverAfter
  /\ TIMER1_init
  /\ FgInit
  /\ HistAfter
  /\ EnvIdle
  /\ sender = "synthetic"
  /\ sig_total = EVENT_BUFFER_SIZE + MaxRaceEdges
  /\ tcnt0 \in TcntStarts
  /\ TxInit

NextRace ==
  \/ HwOverflow
  \/ HwEdge
  \/ TIMER1_OVF_vect
  \/ TIMER1_CAPT_vect
  \/ Call
  \/ UpdateStep
  \/ UpdateReturn
  \/ ClearFull
  \/ TestCnt
  \/ ResetCnt
  \/ Return

SpecRace == InitRace /\ [][NextRace]_vars

(***************************************************************************)
(* SpecRaceLive: SpecRace with the processor running.  main calls          *)
(* IR_is_data_available in an endless loop, so the foreground always takes *)
(* its next step when no interrupt is pending, and a pending interrupt is  *)
(* always served (interrupts stay enabled).  Nothing is required of the    *)
(* sender.                                                                 *)
(***************************************************************************)
ForegroundStep ==
  \/ Call
  \/ UpdateStep
  \/ UpdateReturn
  \/ ClearFull
  \/ TestCnt
  \/ ResetCnt
  \/ Return

InterruptStep ==
  \/ TIMER1_OVF_vect
  \/ TIMER1_CAPT_vect

SpecRaceLive ==
  /\ InitRace
  /\ [][NextRace]_vars
  /\ WF_vars(ForegroundStep)
  /\ WF_vars(InterruptStep)

(***************************************************************************)
(* SpecTail: the end of a reception.  Eleven windows were completed and    *)
(* decoded since the last report; the sender transmits TailFrames more     *)
(* windows; update_data_buffer runs between two interrupts as in Spec.     *)
(***************************************************************************)
InitTail ==
  /\ ReceiverAfter
  /\ g_byte_cnt = DATA_BUFFER_SIZE - 1
  /\ TIMER1_init
  /\ FgInit
  /\ HistAfter
  /\ EnvIdle
  /\ sender = "synthetic"
  /\ sig_total = TailFrames * EVENT_BUFFER_SIZE
  /\ tcnt0 \in LongRunStarts
  /\ TxInit

SpecTail == InitTail /\ [][Next]_vars

(***************************************************************************)
(* SpecDecode: update_data_buffer, iteration by iteration, on a full       *)
(* window drawn from bounded sets: a synthetic pattern with one interval   *)
(* replaced by a probe width, behind any previous last event, into a slot  *)
(* of the data buffer holding any prior byte.  No interrupt is pending.    *)
(***************************************************************************)
InitDecode ==
  /\ \E pattern \in Patterns, base \in WindowBases, p \in ProbeSlots,
        w \in ProbeWidths :
       g_event_buffer = Window(pattern, base, p, w)
  /\ g_last_event \in PriorLastEvents
  /\ g_byte_cnt \in DecodeSlots
  /\ \E b \in PriorBytes :
       g_data_buffer = [k \in 0 .. (DATA_BUFFER_SIZE - 1) |-> b]
  /\ overrun = {}
  /\ g_virtual_cnt = 0
  /\ g_event_buffer_index = 0
  /\ g_is_edge_falling = TRUE
  /\ g_is_event_buffer_full = TRUE
  /\ TIMER1_init
  /\ FgInit
  /\ HistInit
  /\ EnvIdle
  /\ sender = "none"
  /\ sig_total = 0
  /\ tcnt0 = 0
  /\ TxInit

NextDecode ==
  \/ Call
  \/ UpdateStep
  \/ UpdateReturn
  \/ ClearFull
  \/ TestCnt
  \/ ResetCnt
  \/ Return

SpecDecode == InitDecode /\ [][NextDecode]_vars

(***************************************************************************)
(* SpecWriteBit: find_bit_position called with any offset and level on a   *)
(* buffer whose slots hold any bytes the calls before it left.  hits keeps *)
(* the arguments of the last call.                                         *)
(***************************************************************************)
\* The offsets the calls are made with: the eight documented ones and
\* offsets next to them that map to no bit.
CallOffsets == BitPositions \cup {22, 52}

\* The slots of the buffer the calls write into.
WriteSlots == {0, DATA_BUFFER_SIZE - 1}

InitWriteBit ==
  /\ g_byte_cnt \in WriteSlots
  /\ \E b \in PriorBytes :
       g_data_buffer = [k \in 0 .. (DATA_BUFFER_SIZE - 1) |-> b]
  /\ overrun = {}
  /\ g_last_event = 0
  /\ g_virtual_cnt = 0
  /\ g_event_buffer_index = 0
  /\ g_is_edge_falling = TRUE
  /\ g_is_event_buffer_full = FALSE
  /\ g_event_buffer = [k \in 0 .. (EVENT_BUFFER_SIZE - 1) |-> 0]
  /\ TIMER1_init
  /\ FgInit
  /\ HistInit
  /\ EnvIdle
  /\ sender = "none"
  /\ sig_total = 0
  /\ tcnt0 = 0
  /\ TxInit

FindBitPosition ==
  \E bit_position \in CallOffsets, logic_level \in BOOLEAN :
    LET m == find_bit_position(Mem, g_byte_cnt, bit_position, logic_level)
    IN /\ g_data_buffer' = m.buf
       /\ overrun' = m.overrun
       /\ hits' = {<< bit_position, logic_level >>}
       /\ UNCHANGED << g_last_event, g_byte_cnt, g_virtual_cnt,
                       g_is_edge_falling, g_is_event_buffer_full,
                       g_event_buffer_index, g_event_buffer >>
       /\ UNCHANGED << captures, decode_runs, completed_since_report,
                       decoded_since_report, returned, fresh_true, intervals,
                       flips, due >>
       /\ UNCHANGED << hwVars, envVars, fgVars >>
       /\ UNCHANGED txVars

NextWriteBit == FindBitPosition

SpecWriteBit == InitWriteBit /\ [][NextWriteBit]_vars

(***************************************************************************)
(* SpecRound: the emitter's frame of one table character, at the nominal   *)
(* durations of its levels, is captured by the receiver and decoded.       *)
(***************************************************************************)
InitRound ==
  /\ ReceiverAfter
  /\ TIMER1_init
  /\ FgInit
  /\ HistAfter
  /\ EnvIdle
  /\ sender \in CharNames
  /\ sig_total = EVENT_BUFFER_SIZE
  /\ tcnt0 \in TcntStarts
  /\ TxInit

NextRound ==
  \/ HwOverflow
  \/ HwEdge
  \/ TIMER1_OVF_vect
  \/ TIMER1_CAPT_vect
  \/ Call
  \/ UpdateStep
  \/ UpdateReturn
  \/ ClearFull
  \/ TestCnt
  \/ ResetCnt
  \/ Return

SpecRound == InitRound /\ [][NextRound]_vars

(***************************************************************************)
(* The emitter (ir_emitter.c).  The file names three identifiers it does   *)
(* not declare; the model reads g_get_couter_cmd_len as the array          *)
(* g_get_counter_cmd_len, and half_start_bits as a pointer that starts at  *)
(* g_half_start_bits: frame_transmission increments it and nothing ever    *)
(* sets it back.  sizeof(half_start_bits) is then the size of a pointer or *)
(* of the array, and a read past the array yields whatever the build put   *)
(* behind it.                                                              *)
(***************************************************************************)
Commands == {GET_COUNTER, CLEAN_MEMORY, 2}

SizeofChoices == {2, Len(g_half_start_bits)}

RomBytes == {HIGH_LEVEL, LOW_LEVEL2, 5}

\* The arguments of the three calls of command_transmission.
CommandFrames(ph, cmd) ==
  CASE ph = "start" -> g_start_cmd
    [] ph = "stop" -> g_stop_cmd
    [] ph = "request" /\ cmd = GET_COUNTER -> g_get_couter_cmd
    [] ph = "request" /\ cmd = CLEAN_MEMORY -> g_clean_memory_cmd
    [] OTHER -> << >>

CommandLens(ph, cmd) ==
  CASE ph = "start" -> g_start_cmd_len
    [] ph = "stop" -> g_stop_cmd_len
    [] ph = "request" /\ cmd = GET_COUNTER -> g_get_counter_cmd_len
    [] ph = "request" /\ cmd = CLEAN_MEMORY -> g_clean_memory_cmd_len
    [] OTHER -> << >>

\* sizeof of an array of uint8_t is its number of elements.
NumFrames(ph, cmd) == Len(CommandLens(ph, cmd))

\* *half_start_bits and *data_frame at the cursors' offsets.
ReadHalfStart(offset) ==
  IF offset < Len(g_half_start_bits) THEN g_half_start_bits[offset + 1]
  ELSE rom_after

ReadTable(name, offset) ==
  IF offset < Len(Table(name)) THEN Table(name)[offset + 1] ELSE rom_after

\* ir_led_transmission: a burst or a delay for the five levels, nothing for
\* any other value; the LED is off when it returns.
ir_led_transmission(levels, level) ==
  IF level \in {HIGH_LEVEL, LOW_LEVEL1, LOW_LEVEL2, LOW_LEVEL3, LOW_LEVEL4}
    THEN Append(levels, level)
    ELSE levels

\* Variant of BurstWrites that clears the bit before it sets it.
RECURSIVE BurstWrites_OnLast(_)
BurstWrites_OnLast(cycles) ==
  IF cycles >= CYCLES THEN << >>
  ELSE << 0, 1 >> \o BurstWrites_OnLast(cycles + 1)

\* The values ir_led_transmission writes to the IR_LED bit of PORTD, in
\* order: for HIGH_LEVEL, CYCLES times _setBit then _clearBit; for every
\* other value none, the function only waits or does nothing.
RECURSIVE BurstWrites(_)
BurstWrites(cycles) ==
  IF cycles >= CYCLES THEN << >>
  ELSE << 1, 0 >> \o BurstWrites(cycles + 1)

LedWrites(level) == IF level = HIGH_LEVEL THEN BurstWrites(0) ELSE << >>

\* The IR_LED bit when ir_led_transmission(level) returns.
LedAfter(led, level) ==
  IF LedWrites(level) = << >> THEN led
  ELSE LedWrites(level)[Len(LedWrites(level))]

\* Entries of the history sent: a frame handed to frame_transmission, or a
\* delay of _delay_ms.
FrameEntry(name) == [kind |-> "frame", name |-> name, time |-> 0]

DelayEntry(time) == [kind |-> "delay", name |-> "", time |-> time]

\* Entry of the history emitted for a level ir_led_transmission acts on: the
\* level with its duration; no entry for a value that is no level.
LevelEntry(level) == [kind |-> "level", name |-> "", time |-> LevelTime(level)]

LogLevel(log, level) ==
  IF level \in {HIGH_LEVEL, LOW_LEVEL1, LOW_LEVEL2, LOW_LEVEL3, LOW_LEVEL4}
    THEN Append(log, LevelEntry(level))
    ELSE log

\* main calls IR_send_request(command).
SendRequest ==
  /\ phase = "idle"
  /\ calls < MaxCalls
  /\ \E cmd \in Commands : command' = cmd
  /\ phase' = "start"
  /\ ct_i' = 0
  /\ calls' = calls + 1
  /\ sent' = << >>
  /\ frame_levels' = << >>
  /\ emitted' = << >>
  /\ UNCHANGED << ft_pc, ft_i, half_start_bits, data_frame, IR_LED,
                  sizeof_half_start_bits, rom_after, first_emitted >>
  /\ UNCHANGED rxVars

\* command_transmission: frame_transmission(frames[i], frames_length[i]).
FrameCall ==
  /\ phase \in {"start", "request", "stop"}
  /\ ft_pc = "none"
  /\ ct_i < NumFrames(phase, command)
  /\ ft_pc' = "preamble"
  /\ ft_i' = 0
  /\ data_frame' = 0
  /\ frame_levels' = << >>
  /\ sent' = Append(sent, FrameEntry(CommandFrames(phase, command)[ct_i + 1]))
  /\ UNCHANGED << command, phase, ct_i, half_start_bits, IR_LED,
                  sizeof_half_start_bits, rom_after, calls, emitted,
                  first_emitted >>
  /\ UNCHANGED rxVars

\* command_transmission returns to IR_send_request.
CommandReturn ==
  /\ phase \in {"start", "request", "stop"}
  /\ ft_pc = "none"
  /\ ct_i >= NumFrames(phase, command)
  /\ ct_i' = 0
  /\ phase' = CASE phase = "start" -> "delay"
                [] phase = "request" -> "stop"
                [] phase = "stop" -> "idle"
  /\ first_emitted' =
       IF phase = "stop" /\ first_emitted[command] = << >>
         THEN [first_emitted EXCEPT ![command] = emitted]
         ELSE first_emitted
  /\ UNCHANGED << command, ft_pc, ft_i, half_start_bits, data_frame, IR_LED,
                  sizeof_half_start_bits, rom_after, calls, sent,
                  frame_levels, emitted >>
  /\ UNCHANGED rxVars

\* Variant of StartDelay that waits for the LED line to be on.
StartDelay_Waits ==
  /\ phase = "delay"
  /\ IR_LED = 1
  /\ sent' = Append(sent, DelayEntry(START_TIME))
  /\ emitted' = Append(emitted, DelayEntry(START_TIME))
  /\ phase' = IF command \in {GET_COUNTER, CLEAN_MEMORY} THEN "request"
              ELSE "stop"
  /\ UNCHANGED << command, ct_i, ft_pc, ft_i, half_start_bits, data_frame,
                  IR_LED, sizeof_half_start_bits, rom_after, calls,
                  frame_levels, first_emitted >>
  /\ UNCHANGED rxVars

\* _delay_ms(START_TIME); switch (command)
StartDelay ==
  /\ phase = "delay"
  /\ sent' = Append(sent, DelayEntry(START_TIME))
  /\ emitted' = Append(emitted, DelayEntry(START_TIME))
  /\ UNCHANGED first_emitted
  /\ phase' = IF command \in {GET_COUNTER, CLEAN_MEMORY} THEN "request"
              ELSE "stop"
  /\ UNCHANGED << command, ct_i, ft_pc, ft_i, half_start_bits, data_frame,
                  IR_LED, sizeof_half_start_bits, rom_after, calls,
                  frame_levels >>
  /\ UNCHANGED rxVars

\* for (i = 0; i < sizeof(half_start_bits); i++)
\*   ir_led_transmission(*half_start_bits++);
PreambleStep ==
  /\ ft_pc = "preamble"
  /\ IF ft_i < sizeof_half_start_bits
       THEN /\ frame_levels' =
                 ir_led_transmission(frame_levels,
                                     ReadHalfStart(half_start_bits))
            /\ emitted' = LogLevel(emitted, ReadHalfStart(half_start_bits))
            /\ half_start_bits' = half_start_bits + 1
            /\ ft_i' = ft_i + 1
            /\ IR_LED' = LedAfter(IR_LED, ReadHalfStart(half_start_bits))
            /\ UNCHANGED ft_pc
       ELSE /\ ft_pc' = "data"
            /\ ft_i' = 0
            /\ UNCHANGED << frame_levels, half_start_bits, IR_LED, emitted >>
  /\ UNCHANGED << command, phase, ct_i, data_frame, sizeof_half_start_bits,
                  rom_after, calls, sent, first_emitted >>
  /\ UNCHANGED rxVars

\* for (i = 0; i < length; i++) ir_led_transmission(*data_frame++);
DataStep ==
  /\ ft_pc = "data"
  /\ LET name == CommandFrames(phase, command)[ct_i + 1]
         length == CommandLens(phase, command)[ct_i + 1]
     IN IF ft_i < length
          THEN /\ frame_levels' =
                    ir_led_transmission(frame_levels,
                                        ReadTable(name, data_frame))
               /\ emitted' = LogLevel(emitted, ReadTable(name, data_frame))
               /\ data_frame' = data_frame + 1
               /\ ft_i' = ft_i + 1
               /\ IR_LED' = LedAfter(IR_LED, ReadTable(name, data_frame))
               /\ UNCHANGED ft_pc
          ELSE /\ ft_pc' = "gap"
               /\ UNCHANGED << frame_levels, data_frame, ft_i, IR_LED,
                               emitted >>
  /\ UNCHANGED << command, phase, ct_i, half_start_bits,
                  sizeof_half_start_bits, rom_after, calls, sent,
                  first_emitted >>
  /\ UNCHANGED rxVars

\* _delay_ms(STOP_TIME); frame_transmission returns and the loop of
\* command_transmission counts.
FrameGap ==
  /\ ft_pc = "gap"
  /\ sent' = Append(sent, DelayEntry(STOP_TIME))
  /\ emitted' = Append(emitted, DelayEntry(STOP_TIME))
  /\ UNCHANGED first_emitted
  /\ ft_pc' = "none"
  /\ ct_i' = ct_i + 1
  /\ UNCHANGED << command, phase, ft_i, half_start_bits, data_frame, IR_LED,
                  sizeof_half_start_bits, rom_after, calls, frame_levels >>
  /\ UNCHANGED rxVars

(***************************************************************************)
(* SpecEmit: the emitter after IR_Emitter_init, main calling               *)
(* IR_send_request MaxCalls times with any command byte.                   *)
(***************************************************************************)
InitEmit ==
  /\ IR_Reciever_init
  /\ TIMER1_init
  /\ FgInit
  /\ HistInit
  /\ EnvIdle
  /\ sender = "none"
  /\ sig_total = 0
  /\ tcnt0 = 0
  /\ command = GET_COUNTER
  /\ phase = "idle"
  /\ ct_i = 0
  /\ ft_pc = "none"
  /\ ft_i = 0
  /\ half_start_bits = 0
  /\ data_frame = 0
  /\ IR_LED = 0
  /\ sizeof_half_start_bits \in SizeofChoices
  /\ rom_after \in RomBytes
  /\ calls = 0
  /\ sent = << >>
  /\ frame_levels = << >>
  /\ emitted = << >>
  /\ first_emitted = [c \in Commands |-> << >>]

NextEmit ==
  \/ SendRequest
  \/ FrameCall
  \/ CommandReturn
  \/ StartDelay
  \/ PreambleStep
  \/ DataStep
  \/ FrameGap

SpecEmit == InitEmit /\ [][NextEmit]_vars

(***************************************************************************)
(* SpecEmitLive: SpecEmit with the processor running.  The emitter enables *)
(* no interrupt and its delays are busy waits, so a call of                *)
(* IR_send_request that has begun always takes its next step; main is not  *)
(* required to call again.                                                 *)
(***************************************************************************)
EmitterStep ==
  \/ FrameCall
  \/ CommandReturn
  \/ StartDelay
  \/ PreambleStep
  \/ DataStep
  \/ FrameGap

SpecEmitLive == InitEmit /\ [][NextEmit]_vars /\ WF_vars(EmitterStep)

(***************************************************************************)
(* Properties.                                                             *)
(***************************************************************************)
\* The data bit the protocol assigns to an event offset.
BitOfOffset(offset) ==
  CASE offset = 23 -> 7 [] offset = 27 -> 6 [] offset = 31 -> 5
    [] offset = 35 -> 4 [] offset = 39 -> 3 [] offset = 43 -> 2
    [] offset = 47 -> 1 [] offset = 51 -> 0

\* Width of interval k of the window in the event buffer, as a 16 bit count.
WidthOfInterval(k) == (g_event_buffer[k] - g_event_buffer[k - 1]) % U16

InBand1(w) == w \in 21 .. 99

InBand3(w) == w \in 121 .. 199

InBand5(w) == w \in 221 .. 299

BandEnds == {20, 100, 120, 200, 220, 300}

\* An iteration of update_data_buffer that handles an interval.
IntervalStep == pc = "update" /\ i \in 1 .. (EVENT_BUFFER_SIZE - 1) /\ i' = i + 1

\* C1 (as claimed; Spec): IR_is_data_available returns true exactly when 12
\* windows have been decoded into the reception buffer since the previous
\* true return or since init, and the call right after a true return, no
\* window having completed in between, returns false.
C1_TrueExactlyAtTwelveDecoded ==
  /\ pc = "return" => (status <=> decoded_since_report = DATA_BUFFER_SIZE)
  /\ pc = "return" /\ fresh_true => ~status

\* C2 (SpecRace): a partial window is never decoded.  update_data_buffer is
\* entered only with g_is_event_buffer_full true; the flag rises only in
\* the capture interrupt that stores into index 29, the 30th timestamp since
\* the index was 0; and the decoder has never run more often than windows
\* of 30 captures were completed.
C2_NoPartialWindowDecoded ==
  /\ [][(pc # "update" /\ pc' = "update") => g_is_event_buffer_full]_vars
  /\ [][(~g_is_event_buffer_full /\ g_is_event_buffer_full')
          => /\ ICF1 /\ ~ICF1'
             /\ g_event_buffer_index = EVENT_BUFFER_SIZE - 1
             /\ g_event_buffer_index' = 0
             /\ captures' = captures + 1
             /\ captures' % EVENT_BUFFER_SIZE = 0]_vars
  /\ [](decode_runs * EVENT_BUFFER_SIZE <= captures)

\* C2 witness: the decoder runs on a completed window while two captures of
\* the next window are already stored.
C2_Witness ==
  /\ pc = "update"
  /\ i > 0
  /\ decode_runs = 1
  /\ captures = EVENT_BUFFER_SIZE + 2

\* C3 (as claimed; SpecDecode): whenever event_cnt has passed one of the
\* eight offsets while decoding a window, the level state had at that
\* offset is in the data bit 7..0 of the byte under construction that the
\* offset maps to.
C3_OffsetsWriteTheirBits ==
  (pc \in {"update", "clear_full"} /\ g_byte_cnt < DATA_BUFFER_SIZE)
    => \A h \in hits :
         BitAt(g_data_buffer[g_byte_cnt], BitOfOffset(h[1]))
           = IF h[2] THEN 1 ELSE 0

\* C4 (SpecWriteBit): a call of find_bit_position / write_bit changes no
\* bit of the reception buffer other than the bit its offset maps to, in the
\* byte under construction; an offset that maps to no bit changes nothing.
C4_WriteChangesOneBit ==
  [][/\ \A k \in 0 .. (DATA_BUFFER_SIZE - 1) :
          k # g_byte_cnt => g_data_buffer'[k] = g_data_buffer[k]
     /\ g_data_buffer'[g_byte_cnt] \in 0 .. (U8 - 1)
     /\ \A b \in 0 .. 7 :
          BitAt(g_data_buffer'[g_byte_cnt], b)
              # BitAt(g_data_buffer[g_byte_cnt], b)
            => \E h \in hits' :
                 h[1] \in BitPositions /\ b = BitOfOffset(h[1])]_vars

\* C4 witness: offset 23 written with level false into a byte that was 255
\* leaves 127; the other bytes still hold 255.
C4_Witness ==
  /\ hits = {<< EIGHTH_BIT_POS, FALSE >>}
  /\ g_byte_cnt = 0
  /\ g_data_buffer[0] = 127
  /\ \A k \in 1 .. (DATA_BUFFER_SIZE - 1) : g_data_buffer[k] = 255

\* C5 (SpecDecode): the quarter-bit count after an interval of width w is 1
\* exactly for 20 < w < 100, 3 for 120 < w < 200, 5 for 220 < w < 300, and
\* otherwise, so for w in {20, 100, 120, 200, 220, 300}, the count the
\* previous interval left.
C5_OpenBands ==
  [][IntervalStep
       => LET w == WidthOfInterval(i)
          IN /\ InBand1(w) => quater_of_bit' = 1
             /\ InBand3(w) => quater_of_bit' = 3
             /\ InBand5(w) => quater_of_bit' = 5
             /\ w \in BandEnds => quater_of_bit' = quater_of_bit
             /\ quater_of_bit' # quater_of_bit
                  => \/ quater_of_bit' = 1 /\ 20 < w /\ w < 100
                     \/ quater_of_bit' = 3 /\ 120 < w /\ w < 200
                     \/ quater_of_bit' = 5 /\ 220 < w /\ w < 300]_vars

\* C5 witness: an interval with a width at the end of a band has been
\* handled and the count is still the 3 or 5 of the interval before it.
C5_Witness ==
  /\ pc = "update"
  /\ \E k \in ProbeSlots :
       /\ k > 1
       /\ i = k + 1
       /\ WidthOfInterval(k) \in BandEnds
       /\ ~InBand1(WidthOfInterval(k - 1))
       /\ quater_of_bit \in {3, 5}

OutOfBand(w) == ~InBand1(w) /\ ~InBand3(w) /\ ~InBand5(w)

\* C6 (SpecDecode): an interval with a width outside the three bands keeps
\* the count of the previous interval (0 when it is the first of the
\* window), advances event_cnt by that count, flips state and leaves the
\* loop running; the loop handles all 29 intervals of every window.
C6_OutOfBandReusesCount ==
  /\ [][(IntervalStep /\ OutOfBand(WidthOfInterval(i)))
          => /\ quater_of_bit' = quater_of_bit
             /\ i = 1 => quater_of_bit' = 0
             /\ event_cnt' = event_cnt + quater_of_bit
             /\ state' = ~state
             /\ pc' = "update"]_vars
  /\ []((pc = "update" /\ i = EVENT_BUFFER_SIZE)
          => intervals = EVENT_BUFFER_SIZE - 1)

\* C6 witness: the loop has ended after 29 intervals on a window whose
\* 15th interval is out of band.
C6_Witness ==
  /\ pc = "update"
  /\ i = EVENT_BUFFER_SIZE
  /\ intervals = EVENT_BUFFER_SIZE - 1
  /\ flips = EVENT_BUFFER_SIZE - 1
  /\ OutOfBand(WidthOfInterval(15))

\* The levels 1,0,1,1,0,0,1,0 at the offsets 23,27,...,51.
Levels178 ==
  { << 23, TRUE >>, << 27, FALSE >>, << 31, TRUE >>, << 35, TRUE >>,
    << 39, FALSE >>, << 43, FALSE >>, << 47, TRUE >>, << 51, FALSE >> }

\* C7 (as claimed; SpecDecode): after decoding a window whose intervals put
\* the levels 1,0,1,1,0,0,1,0 at the offsets 23,27,...,51, the slot of the
\* reception buffer for that window holds 178.
C7_Decodes178 ==
  (pc = "clear_full" /\ hits = Levels178 /\ g_byte_cnt < DATA_BUFFER_SIZE)
    => g_data_buffer[g_byte_cnt] = 178

\* The half-bits of a table after the preamble: a Burst fills the first part
\* of a half-bit, LOW_LEVEL1 its rest, LOW_LEVEL2 is an empty half-bit,
\* LOW_LEVEL3 and LOW_LEVEL4 are LOW_LEVEL1 followed by one and two.
RECURSIVE HalfBits(_, _)
HalfBits(levels, k) ==
  IF k > Len(levels) THEN << >>
  ELSE (CASE levels[k] = HIGH_LEVEL -> << 1 >>
          [] levels[k] = LOW_LEVEL1 -> << >>
          [] levels[k] = LOW_LEVEL2 -> << 0 >>
          [] levels[k] = LOW_LEVEL3 -> << 0 >>
          [] levels[k] = LOW_LEVEL4 -> << 0, 0 >>)
       \o HalfBits(levels, k + 1)

\* The data byte of a table: bit-times 5..12 of the frame, most significant
\* first; a bit is 1 when the burst is in its first half.
RECURSIVE DataBits(_, _)
DataBits(hb, d) ==
  IF d = 8 THEN 0
  ELSE hb[2 * (4 + d) + 1] * BV(7 - d) + DataBits(hb, d + 1)

DataByte(name) == DataBits(HalfBits(Table(name), 1), 0)

\* C8 (as claimed; SpecRound): the 30 edges of the frame of any table
\* character, sent at the nominal durations and captured, are decoded to
\* the data byte of that character.
C8_RoundTrip ==
  (pc = "clear_full" /\ g_byte_cnt < DATA_BUFFER_SIZE)
    => g_data_buffer[g_byte_cnt] = DataByte(sender)

\* The order of frames and delays stated for a request.
RECURSIVE WithGaps(_, _)
WithGaps(names, k) ==
  IF k > Len(names) THEN << >>
  ELSE << [kind |-> "frame", name |-> names[k], time |-> 0],
          [kind |-> "delay", name |-> "", time |-> 2840 * TimeUnitsPerUs] >>
       \o WithGaps(names, k + 1)

RequestNames(cmd) ==
  IF cmd = GET_COUNTER THEN << "Y", "P", "3", "M", "I", "O", "F" >>
  ELSE << "C", "N", "F", "G", "DEL" >>

ExpectedSent(cmd) ==
  WithGaps(<< "ESC", "DP" >>, 1)
  \o << [kind |-> "delay", name |-> "", time |-> 31950 * TimeUnitsPerUs] >>
  \o WithGaps(RequestNames(cmd), 1)
  \o WithGaps(<< "FF", "EOT" >>, 1)

IsPrefix(s, t) == Len(s) <= Len(t) /\ SubSeq(t, 1, Len(s)) = s

\* C9 (SpecEmit): IR_send_request for GET_COUNTER or CLEAN_MEMORY hands to
\* frame_transmission ESC, DP, then waits 31.95 ms once, then the frames of
\* the request in table order, then FF, EOT, with the 2.84 ms delay after
\* every frame: at every moment of the call what was sent is a prefix of
\* that order, and all of it when the call has returned.
C9_FrameOrder ==
  (calls > 0 /\ command \in {GET_COUNTER, CLEAN_MEMORY})
    => /\ IsPrefix(sent, ExpectedSent(command))
       /\ phase = "idle" => sent = ExpectedSent(command)

\* C9 witness: a CLEAN_MEMORY request has returned after 9 frames, 9
\* inter-frame delays and the startup delay.
C9_Witness ==
  /\ phase = "idle"
  /\ calls = 1
  /\ command = CLEAN_MEMORY
  /\ Len(sent) = 19
  /\ sent[5].time = START_TIME

\* C10 (as claimed; SpecEmit): every frame consists of the six levels of
\* g_half_start_bits followed by the levels of its table, whatever frame of
\* a transmission it is: so it stands when frame_transmission reaches its
\* inter-frame delay.
C10_FrameShape ==
  ft_pc = "gap"
    => frame_levels
         = << HIGH_LEVEL, LOW_LEVEL1, HIGH_LEVEL, LOW_LEVEL1, HIGH_LEVEL,
              LOW_LEVEL1 >>
           \o Table(CommandFrames(phase, command)[ct_i + 1])

\* C11 (as claimed; SpecEmit): a call of IR_send_request that has returned
\* emitted the same levels and delays as the first call that was made with
\* the same command, GET_COUNTER or CLEAN_MEMORY.
C11_SameCommandSameOutput ==
  (/\ phase = "idle"
   /\ calls > 0
   /\ command \in {GET_COUNTER, CLEAN_MEMORY}
   /\ first_emitted[command] # << >>)
    => emitted = first_emitted[command]

\* Frames handed to frame_transmission in the running call.
FramesSent == Cardinality({k \in 1 .. Len(sent) : sent[k].kind = "frame"})

\* C15 (SpecEmitLive): a call of IR_send_request that has begun returns;
\* it sends at most 2 + 7 + 2 frames, exactly 11 for GET_COUNTER and 9 for
\* CLEAN_MEMORY when it has returned, and no loop of a frame runs more than
\* the 25 iterations of the longest table.
C15_SendRequestCompletes ==
  /\ [](FramesSent <= 2 + 7 + 2 /\ ft_i <= 25)
  /\ []((phase = "idle" /\ calls > 0 /\ command = GET_COUNTER)
          => FramesSent = 2 + 7 + 2)
  /\ []((phase = "idle" /\ calls > 0 /\ command = CLEAN_MEMORY)
          => FramesSent = 2 + 5 + 2)
  /\ (phase # "idle") ~> (phase = "idle")

\* C15 witness: the second call, a GET_COUNTER request, has returned after
\* 11 frames.
C15_Witness ==
  /\ phase = "idle"
  /\ calls = 2
  /\ command = GET_COUNTER
  /\ FramesSent = 11
  /\ ft_pc = "none"

\* A step of the overflow and of the capture interrupt routine: only the
\* routine's entry clears its flag.
OverflowIsrStep == TOV1 /\ ~TOV1'

CaptureIsrStep == ICF1 /\ ~ICF1'

\* C12 (SpecRace): g_virtual_cnt never decreases; a run of the overflow
\* interrupt adds exactly 65536 to it, and no other step, the capture
\* interrupt and the steps of IR_is_data_available included, changes it.
C12_VirtualCntMonotone ==
  [][/\ g_virtual_cnt' >= g_virtual_cnt
     /\ OverflowIsrStep => g_virtual_cnt' = g_virtual_cnt + 65536
     /\ CaptureIsrStep => g_virtual_cnt' = g_virtual_cnt
     /\ pc' # pc => g_virtual_cnt' = g_virtual_cnt
     /\ g_virtual_cnt' # g_virtual_cnt => OverflowIsrStep]_vars

\* C12 witness: the overflow interrupt has run once, captures were stored
\* and a call of IR_is_data_available that decoded a window is returning.
C12_Witness ==
  /\ g_virtual_cnt = 65536
  /\ captures > EVENT_BUFFER_SIZE
  /\ decode_runs = 1
  /\ pc = "return"

\* C13 (as claimed; SpecRace): the timestamps of the window being filled,
\* and of the window just completed, are strictly increasing in slot order.
C13_TimestampsIncrease ==
  \A k \in 1 .. (EVENT_BUFFER_SIZE - 1) :
    (k < g_event_buffer_index
       \/ (g_event_buffer_index = 0 /\ g_is_event_buffer_full
             /\ captures = EVENT_BUFFER_SIZE))
      => g_event_buffer[k - 1] < g_event_buffer[k]

\* C14 (as claimed; SpecRace): while g_is_event_buffer_full is true or
\* update_data_buffer is running, no step writes to g_event_buffer.
C14_NoWriteWhileFull ==
  [][(g_is_event_buffer_full \/ pc = "update")
       => g_event_buffer' = g_event_buffer]_vars

\* C18 (SpecRace): a run of the capture interrupt stores the timestamp
\* g_virtual_cnt + ICR1 at the write index and nothing elsewhere; from index
\* 29 it sets the full flag, puts the index to 0 and adds one to
\* g_byte_cnt, from any other index it adds one to the index and leaves
\* flag and counter alone.  The index is in 0..29 in every state outside
\* the routine, and no other step adds to g_byte_cnt.
C18_CaptureIsrIndex ==
  /\ [](g_event_buffer_index \in 0 .. 29)
  /\ [][CaptureIsrStep
          => /\ g_event_buffer'
                  = [g_event_buffer EXCEPT
                       ![g_event_buffer_index] = g_virtual_cnt + ICR1]
             /\ IF g_event_buffer_index = 29
                  THEN /\ g_is_event_buffer_full'
                       /\ g_event_buffer_index' = 0
                       /\ g_byte_cnt' = g_byte_cnt + 1
                  ELSE /\ g_event_buffer_index' = g_event_buffer_index + 1
                       /\ g_is_event_buffer_full' = g_is_event_buffer_full
                       /\ g_byte_cnt' = g_byte_cnt]_vars
  /\ [][g_byte_cnt' > g_byte_cnt
          => CaptureIsrStep /\ captures' % 30 = 0]_vars

\* C18 witness: the 30th capture has been stored: the flag is set, the
\* index is back to 0 and the counter is 1.
C18_Witness ==
  /\ captures = 30
  /\ g_event_buffer_index = 0
  /\ g_is_event_buffer_full
  /\ g_byte_cnt = 1
  /\ g_event_buffer[29] > g_event_buffer[28]

\* C16 (as claimed; SpecRace): with every window decoded before the next
\* completes, the decode of the k-th window completed since the last
\* report writes reception buffer position k-1 and no other position.
C16_WindowToSlot ==
  [][(pc = "update" /\ completed_since_report = decoded_since_report + 1)
       => /\ overrun' = overrun
          /\ \A s \in 0 .. (DATA_BUFFER_SIZE - 1) :
               s # completed_since_report - 1
                 => g_data_buffer'[s] = g_data_buffer[s]]_vars

\* C17 (as claimed; SpecRace): no execution of write_bit has an index
\* outside 0..11, the decode of the 12th window of a reception included.
C17_WritesInBounds == overrun = {}

\* C19 (as claimed; SpecTail): every completed window is decoded once.
\* Between two calls, with the full flag clear and no capture pending,
\* nothing is left to decode, so every completed window has been decoded.
C19_EveryWindowDecoded ==
  (pc = "main" /\ ~g_is_event_buffer_full /\ ~ICF1)
    => decode_runs = captures \div EVENT_BUFFER_SIZE

\* C20 (as claimed; SpecTail): a call of IR_is_data_available that began
\* with the completed-frame counter at 12 or more returns true.
C20_DueCallReturnsTrue == (pc = "return" /\ due) => status

\* C21 (as claimed; SpecTail): g_byte_cnt counts the windows completed
\* since the last report.  A step changes it only by counting a window the
\* capture interrupt completes, or by discarding exactly the
\* DATA_BUFFER_SIZE windows that are reported: no completion counted
\* between the test of the counter and its reset is dropped.
C21_NoCompletionLost ==
  [][\/ g_byte_cnt' = g_byte_cnt
     \/ /\ g_byte_cnt' = g_byte_cnt + 1
        /\ completed_since_report' = completed_since_report + 1
     \/ /\ g_byte_cnt' = 0
        /\ g_byte_cnt = DATA_BUFFER_SIZE]_vars

\* C22 (SpecRace): g_is_edge_falling is true exactly when ICES1 is clear, in
\* every state (an interrupt routine is one step).  A run of the capture
\* interrupt flips both, no other step changes either, and the polarity
\* alternates from falling: it is falling exactly after an even number of
\* captures.
C22_PolarityLockStep ==
  /\ [](g_is_edge_falling <=> ~ICES1)
  /\ [](g_is_edge_falling <=> captures % 2 = 0)
  /\ [][CaptureIsrStep
          => /\ g_is_edge_falling' = ~g_is_edge_falling
             /\ ICES1' = ~ICES1]_vars
  /\ [][~CaptureIsrStep
          => /\ g_is_edge_falling' = g_is_edge_falling
             /\ ICES1' = ICES1]_vars

\* C22 witness: after the third capture the rising edge is selected.
C22_Witness == captures = 3 /\ ~g_is_edge_falling /\ ICES1 /\ ~ICF1

\* The decoder is about to handle slot i of the window.
DecodesSlot == pc = "update" /\ i < EVENT_BUFFER_SIZE

\* C23 (SpecDecode): for slot i in 1..29 the quarter count the decoder
\* derives is the one of the width (timestamp[i] - timestamp[i-1]) mod 2^16,
\* and state flips; slot 0 leaves the quarter count, the offset and state
\* alone.  When the loop ends, 29 intervals were handled and state was
\* flipped 29 times.
C23_IntervalsOfWindow ==
  /\ [][(DecodesSlot /\ i > 0)
          => /\ quater_of_bit'
                  = Classify((g_event_buffer[i] - g_event_buffer[i - 1]) % U16,
                             quater_of_bit)
             /\ state' = ~state
             /\ intervals' = intervals + 1
             /\ flips' = flips + 1]_vars
  /\ [][(DecodesSlot /\ i = 0)
          => /\ quater_of_bit' = quater_of_bit
             /\ event_cnt' = event_cnt
             /\ state' = state
             /\ intervals' = intervals
             /\ flips' = flips]_vars
  /\ []((pc = "update" /\ i = EVENT_BUFFER_SIZE)
          => (intervals = 29 /\ flips = 29 /\ ~state))

\* C23 witness: the loop has ended on a window whose timestamps pass a
\* multiple of 2^16, decoded behind a last event of another window.
C23_Witness ==
  /\ pc = "update"
  /\ i = EVENT_BUFFER_SIZE
  /\ intervals = 29
  /\ g_event_buffer[0] < U16
  /\ g_event_buffer[29] > U16
  /\ g_last_event = g_event_buffer[29]

\* A second decode of the window in g_event_buffer into the same slot,
\* started with a cleared reception buffer and g_last_event = 0.
DecodeFromCleared ==
  UpdateFrom(0, g_event_buffer,
             [last_event |-> 0, quater_of_bit |-> 0, event_cnt |-> 0,
              state |-> TRUE,
              mem |-> [buf |-> [k \in 0 .. (DATA_BUFFER_SIZE - 1) |-> 0],
                       overrun |-> {}],
              byte_cnt |-> g_byte_cnt, hits |-> {}, intervals |-> 0,
              flips |-> 0])

\* C24 (as claimed; SpecDecode): the byte a decode stores is a function of
\* the window alone: when update_data_buffer has returned, the slot holds
\* the byte that a decode of the same window stores when it starts with
\* other prior contents of the buffer and another g_last_event.
C24_ByteOfWindowAlone ==
  (pc = "clear_full" /\ g_byte_cnt < DATA_BUFFER_SIZE)
    => g_data_buffer[g_byte_cnt] = DecodeFromCleared.mem.buf[g_byte_cnt]

\* The frames handed to frame_transmission by the running (or last) call of
\* IR_send_request, in order.
SentFrames == SelectSeq(sent, LAMBDA e : e.kind = "frame")

\* C25 (SpecEmit): whatever the command byte, the first two frames of a call
\* of IR_send_request are ESC and DP, and when the call has returned the
\* last two are FF and EOT; each frame ends with the levels of its table.
C25_StartStopBracket ==
  calls > 0
    => /\ Len(SentFrames) >= 1 => SentFrames[1].name = "ESC"
       /\ Len(SentFrames) >= 2 => SentFrames[2].name = "DP"
       /\ phase = "idle"
            => /\ Len(SentFrames) >= 4
               /\ SentFrames[Len(SentFrames) - 1].name = "FF"
               /\ SentFrames[Len(SentFrames)].name = "EOT"
       /\ ft_pc = "gap"
            => LET table == Table(SentFrames[Len(SentFrames)].name)
               IN /\ Len(frame_levels) >= Len(table)
                  /\ SubSeq(frame_levels,
                            Len(frame_levels) - Len(table) + 1,
                            Len(frame_levels)) = table

\* C25 witness: a call with a command byte that is neither GET_COUNTER nor
\* CLEAN_MEMORY has returned after four frames.
C25_Witness ==
  /\ phase = "idle"
  /\ calls = 1
  /\ command \notin {GET_COUNTER, CLEAN_MEMORY}
  /\ Len(SentFrames) = 4
  /\ SentFrames[3].name = "FF"

\* The Burst levels (HIGH_LEVEL) among the levels of a frame.
Bursts(levels) ==
  Cardinality({k \in 1 .. Len(levels) : levels[k] = HIGH_LEVEL})

\* C26 (as claimed; SpecEmit): every transmitted frame holds 15 Burst
\* levels, two line edges each, which is EVENT_BUFFER_SIZE edges: so it
\* stands when frame_transmission reaches its inter-frame delay.
C26_FifteenBursts ==
  ft_pc = "gap" => 2 * Bursts(frame_levels) = EVENT_BUFFER_SIZE

\* The levels the running frame got from its table: the last length levels
\* of the frame, length being the size handed to frame_transmission.
DataLevels ==
  LET length == CommandLens(phase, command)[ct_i + 1]
  IN SubSeq(frame_levels, Len(frame_levels) - length + 1, Len(frame_levels))

\* No two Bursts and no two low levels in a row.
Alternates(levels) ==
  \A k \in 1 .. (Len(levels) - 1) :
    (levels[k] = HIGH_LEVEL) # (levels[k + 1] = HIGH_LEVEL)

\* The half-bit times of the levels from position k on: LOW_LEVEL2 counts 1,
\* a Burst with LOW_LEVEL1, LOW_LEVEL3 or LOW_LEVEL4 after it counts 1, 2 or
\* 3; NoHalfBits marks levels that are not made up this way.
NoHalfBits == 0 - 1000

RECURSIVE HalfBitTimes(_, _)
HalfBitTimes(levels, k) ==
  IF k > Len(levels) THEN 0
  ELSE IF levels[k] = LOW_LEVEL2 THEN 1 + HalfBitTimes(levels, k + 1)
  ELSE IF levels[k] = HIGH_LEVEL /\ k < Len(levels)
            /\ levels[k + 1] \in {LOW_LEVEL1, LOW_LEVEL3, LOW_LEVEL4}
    THEN (CASE levels[k + 1] = LOW_LEVEL1 -> 1
            [] levels[k + 1] = LOW_LEVEL3 -> 2
            [] levels[k + 1] = LOW_LEVEL4 -> 3)
         + HalfBitTimes(levels, k + 2)
  ELSE NoHalfBits

\* C27 (SpecEmit): the levels a frame gets from its table alternate between
\* Burst and low level and last exactly 24 half-bit times, for every table
\* of every command.
C27_TablesAlternate ==
  ft_pc = "gap"
    => /\ Len(DataLevels) = SizeofTable(SentFrames[Len(SentFrames)].name)
       /\ Alternates(DataLevels)
       /\ HalfBitTimes(DataLevels, 1) = 24

\* C27 witness: the last table of the CLEAN_MEMORY request, DEL, has been
\* sent; it starts with LOW_LEVEL2 and ends with a Burst and LOW_LEVEL3.
C27_Witness ==
  /\ ft_pc = "gap"
  /\ phase = "request"
  /\ command = CLEAN_MEMORY
  /\ ct_i = 4
  /\ DataLevels[1] = LOW_LEVEL2
  /\ DataLevels[Len(DataLevels)] = LOW_LEVEL3

\* The level the next call of ir_led_transmission is made with, and the
\* steps that make such a call.
CurrentLevel ==
  IF ft_pc = "preamble" THEN ReadHalfStart(half_start_bits)
  ELSE ReadTable(CommandFrames(phase, command)[ct_i + 1], data_frame)

LevelStep == ft_pc \in {"preamble", "data"} /\ ft_i' = ft_i + 1

\* C28 (SpecEmit): the IR_LED line is off during the inter-frame delay,
\* during the startup delay and when IR_send_request has returned; a call
\* of ir_led_transmission for anything but a Burst begins and ends with the
\* line off; a Burst writes on, off eight times and leaves the line off.
C28_LineOffInDelays ==
  /\ []((ft_pc = "gap" \/ phase \in {"delay", "idle"}) => IR_LED = 0)
  /\ [][(LevelStep /\ CurrentLevel # HIGH_LEVEL)
          => (IR_LED = 0 /\ IR_LED' = 0)]_vars
  /\ [][(LevelStep /\ CurrentLevel = HIGH_LEVEL)
          => /\ LedWrites(CurrentLevel)
                  = << 1, 0, 1, 0, 1, 0, 1, 0, 1, 0, 1, 0, 1, 0, 1, 0 >>
             /\ IR_LED' = 0]_vars

\* C28 witness: a frame has reached its inter-frame delay with Bursts and
\* low levels sent, the last level of its table being a low level.
C28_Witness ==
  /\ ft_pc = "gap"
  /\ IR_LED = 0
  /\ Bursts(frame_levels) >= 12
  /\ frame_levels[Len(frame_levels)] # HIGH_LEVEL

\* C29 (SpecRaceLive): a call of IR_is_data_available always returns.  It
\* runs update_data_buffer at most once, begun by the call itself; the
\* decode handles one slot per iteration, at most 29 intervals, each moving
\* the offset by at most 5 quarter steps.  No step of the sender is needed
\* for the call to return.
C29_CallReturns ==
  /\ []((pc = "update")
          => (i <= EVENT_BUFFER_SIZE /\ intervals <= 29
                /\ quater_of_bit \in {0, 1, 3, 5}))
  /\ [][DecodesSlot => i' \in {i, i + 1}]_vars
  /\ [][(DecodesSlot /\ i' # i) => (event_cnt' - event_cnt) \in 0 .. 5]_vars
  /\ [][decode_runs' # decode_runs
          => (pc = "main" /\ decode_runs' = decode_runs + 1)]_vars
  /\ [][(pc # "main" /\ pc' # "main") => decode_runs' = decode_runs]_vars
  /\ (pc # "main") ~> (pc = "main")

\* C29 witness: a call that decoded a window has returned, captures of the
\* next window having been served meanwhile.
C29_Witness ==
  /\ pc = "main"
  /\ decode_runs = 1
  /\ ~g_is_event_buffer_full
  /\ captures > EVENT_BUFFER_SIZE
  /\ flips = 0

\* The size handed to frame_transmission with the table of the running
\* frame.
FrameLength == CommandLens(phase, command)[ct_i + 1]

\* C30 (as claimed; SpecEmit): every character table is a sequence of 12 or
\* 13 pulse levels: that many levels are sent from the table of a frame.
C30_TwelveOrThirteenLevels ==
  ft_pc = "gap"
    => (FrameLength \in {12, 13} /\ Len(DataLevels) = FrameLength)

\* C30 (amended; SpecEmit): every character table is a sequence of 24 or 25
\* pulse levels, 12 of them Bursts: that many levels are sent from the
\* table of a frame, and they are the table.
C30_TableLengths ==
  ft_pc = "gap"
    => /\ FrameLength \in {24, 25}
       /\ Len(DataLevels) = FrameLength
       /\ DataLevels = Table(SentFrames[Len(SentFrames)].name)
       /\ Bursts(DataLevels) = 12

\* C30 witness: a table of 24 levels (F) and a table of 25 levels (EOT)
\* have been sent in the same call.
C30_Witness ==
  /\ ft_pc = "gap"
  /\ phase = "stop"
  /\ ct_i = 1
  /\ command = GET_COUNTER
  /\ FrameLength = 25
  /\ SizeofTable(SentFrames[Len(SentFrames) - 2].name) = 24
====
